---- MODULE Spec2Model ----
(***************************************************************************)
(* fintrack-fastapi: the budget / metrics aggregation layer.               *)
(*                                                                         *)
(* The database is four tables (users, categories, budgets, transactions) *)
(* kept as sequences of rows in insertion order; `id_seq` holds the last   *)
(* value each table's id sequence handed out; `sessions` holds the calls   *)
(* of register_user under way, each in a database session of its own;     *)
(* `today` is the value of date.today().  The database is the PostgreSQL   *)
(* of core/config.py: the UNIQUE, NOT NULL and FOREIGN KEY ... ON DELETE   *)
(* CASCADE constraints of the models are enforced.  Every service function *)
(* but register_user, which is three, is one action: it reads              *)
(* the tables, and leaves what it was called with in `request` and what it *)
(* returned, or the exception it raised, in `response`.                    *)
(*                                                                         *)
(* Money is a whole number of currency units (the code's floats, exact on  *)
(* the values used here); a percentage x / y * 100 is compared by cross    *)
(* multiplication.  A date is its day number (day 1 = 2024-01-01), so that *)
(* timedelta arithmetic is integer arithmetic.                             *)
(***************************************************************************)
EXTENDS Integers, Sequences, FiniteSets, TLC

VARIABLES users, categories, budgets, transactions, id_seq, sessions, today, request, response

vars == <<users, categories, budgets, transactions, id_seq, sessions, today, request, response>>

-----------------------------------------------------------------------------
(* Bounds of the model.                                                    *)

MaxTx == 2

MaxBudgets == 2

MaxPct == 3

\* The highest id the categories sequence hands out.
MaxCategories == 17

\* The ids the budgets and the transactions sequences hand out in the
\* lifecycle specification.
MaxLifecycleRows == 1

-----------------------------------------------------------------------------
(* Python / SQL values.                                                    *)

\* SQL NULL and Python None; a present value v is <<v>>.
None == <<>>

Some(v) == <<v>>

Abs(x) == IF x < 0 THEN -x ELSE x

Max(a, b) == IF a >= b THEN a ELSE b

\* Python's `x or 0.0` on an Optional number: None and 0 are both falsy.
OrZero(x) == IF x = None THEN 0 ELSE IF x[1] = 0 THEN 0 ELSE x[1]

RECURSIVE SumSeq(_)
SumSeq(s) == IF s = <<>> THEN 0 ELSE Head(s) + SumSeq(Tail(s))

\* func.sum(expr) over the selected rows: NULL when no row is selected.
SqlSum(values) == IF values = <<>> THEN None ELSE Some(SumSeq(values))

\* The amounts of the rows of a table that satisfy a WHERE clause.
Amounts(rows) == [i \in 1..Len(rows) |-> rows[i].amount]

AbsAmounts(rows) == [i \in 1..Len(rows) |-> Abs(rows[i].amount)]

\* A SELECT without ORDER BY returns the matching rows in an order the
\* database chooses: any arrangement of them.
Orderings(rows) ==
    LET n == Len(rows)
        perms == {p \in [1..n -> 1..n] : \A i, j \in 1..n : i # j => p[i] # p[j]}
    IN  {[i \in 1..n |-> rows[p[i]]] : p \in perms}

-----------------------------------------------------------------------------
(* datetime.date, as a day number.                                         *)

IsLeap(y) == (y % 4 = 0 /\ y % 100 # 0) \/ y % 400 = 0

DaysInYear(y) == IF IsLeap(y) THEN 366 ELSE 365

DaysInMonth(y, m) ==
    IF m = 2 THEN (IF IsLeap(y) THEN 29 ELSE 28)
    ELSE IF m \in {4, 6, 9, 11} THEN 30 ELSE 31

RECURSIVE DaysBeforeYear(_)
DaysBeforeYear(y) == IF y <= 2024 THEN 0 ELSE DaysBeforeYear(y - 1) + DaysInYear(y - 1)

RECURSIVE DaysBeforeMonth(_, _)
DaysBeforeMonth(y, m) ==
    IF m <= 1 THEN 0 ELSE DaysBeforeMonth(y, m - 1) + DaysInMonth(y, m - 1)

\* date(year, month, day)
Date(y, m, d) == DaysBeforeYear(y) + DaysBeforeMonth(y, m) + d

YearOf(n) == CHOOSE y \in 2024..2026 : DaysBeforeYear(y) < n /\ n <= DaysBeforeYear(y + 1)

MonthOf(n) ==
    LET y == YearOf(n)
        k == n - DaysBeforeYear(y)
    IN  CHOOSE m \in 1..12 : DaysBeforeMonth(y, m) < k /\ k <= DaysBeforeMonth(y, m) + DaysInMonth(y, m)

\* d.replace(day=1)
ReplaceDay1(n) == Date(YearOf(n), MonthOf(n), 1)

-----------------------------------------------------------------------------
(* The tables and their constraints.                                       *)

NoCall == [op |-> "none"]

\* user_service.DEFAULT_CATEGORIES
DEFAULT_CATEGORIES ==
    <<"Alimentación", "Ocio", "Trabajo", "Suscripciones", "Viajes", "Transporte",
      "Facturas", "Otros">>

\* The categories register_user adds for a new user, the first of them
\* taking the id first_id.
DefaultCategoriesOf(user_id, first_id) ==
    [i \in 1..Len(DEFAULT_CATEGORIES) |->
        [id |-> first_id + i - 1, user_id |-> user_id, name |-> DEFAULT_CATEGORIES[i]]]

\* select(Category).where(Category.id == category_id) ... scalar_one_or_none()
CategoryById(category_id) ==
    LET Test(c) == c.id = category_id
        found == SelectSeq(categories, Test)
    IN  IF found = <<>> THEN None ELSE Some(found[1])

UserExists(user_id) == \E i \in DOMAIN users : users[i].id = user_id

\* nullable=False and ForeignKey("users.id"), ForeignKey("categories.id") of
\* a budget or transaction row: the commit of a row that breaks them raises
\* IntegrityError and stores nothing.  (A body that leaves the optional
\* category_id out breaks NOT NULL in the same way as one that names an id
\* no category has; the bodies of the model always carry an id.)
ForeignKeysHold(row) ==
    /\ UserExists(row.user_id)
    /\ CategoryById(row.category_id) # None

-----------------------------------------------------------------------------
(* transaction_service.create_transaction, budget_service.create_budget    *)

\* The row is stored with the amount, type, category and date of the body,
\* whatever their combination: nothing ties the sign of amount to type.  The
\* id sequence moves on whether or not the commit succeeds.  The response
\* reads category.name with no test of category.
create_transaction(user_id, transaction) ==
    /\ id_seq.transactions < MaxTx
    /\ LET new_transaction ==
               [id               |-> id_seq.transactions + 1,
                user_id          |-> user_id,
                category_id      |-> transaction.category_id,
                amount           |-> transaction.amount,
                type             |-> transaction.type,
                transaction_date |-> transaction.transaction_date]
           category == CategoryById(new_transaction.category_id)
       IN  /\ id_seq' = [id_seq EXCEPT !.transactions = new_transaction.id]
           /\ request' = [op |-> "create_transaction", user_id |-> user_id,
                          category_id |-> transaction.category_id]
           /\ IF ~ForeignKeysHold(new_transaction)
              THEN /\ transactions' = transactions
                   /\ response' = [op |-> "create_transaction", raised |-> "IntegrityError"]
              ELSE /\ transactions' = Append(transactions, new_transaction)
                   /\ response' =
                        IF category = None
                        THEN [op |-> "create_transaction", raised |-> "AttributeError"]
                        ELSE [op |-> "create_transaction", raised |-> "none",
                              id |-> new_transaction.id, category |-> category[1].name]
    /\ UNCHANGED <<sessions, users, categories, budgets, today>>

-----------------------------------------------------------------------------
(* budget_service: the budget listing.                                     *)

\* The rows the spend queries select: Transaction.user_id == user_id,
\* category_id == category_id, start_date <= transaction_date <= end_date,
\* type == "expense".
ExpenseRows(user_id, category_id, start_date, end_date) ==
    LET Test(t) == /\ t.user_id = user_id
                   /\ t.category_id = category_id
                   /\ t.transaction_date >= start_date
                   /\ t.transaction_date <= end_date
                   /\ t.type = "expense"
    IN  SelectSeq(transactions, Test)

\* select(func.sum(Transaction.amount)) ...; float(total) if total else 0.0
calculate_spent_amount(user_id, category_id, start_date, end_date) ==
    LET total == SqlSum(Amounts(ExpenseRows(user_id, category_id, start_date, end_date)))
    IN  IF total = None THEN 0 ELSE IF total[1] = 0 THEN 0 ELSE total[1]

\* calculate_status with the threshold compared by > instead of >=.
calculate_statusMutStrict(spent_amount, budget_amount, alert_threshold) ==
    IF Abs(spent_amount) > budget_amount THEN "over"
    ELSE IF budget_amount = 0 THEN "ZeroDivisionError"
    ELSE IF Abs(spent_amount) * 100 > alert_threshold * budget_amount THEN "warning"
    ELSE "good"

\* abs(spent) > amount -> "over"; percentage = abs(spent) / amount * 100, which
\* raises ZeroDivisionError when amount is 0 (then spent is 0 as well, or the
\* first test had answered); percentage >= threshold -> "warning"; else "good".
\* Past the first test budget_amount >= abs(spent) >= 0, so the percentage test
\* is the cross multiplication by a positive budget_amount.
calculate_status(spent_amount, budget_amount, alert_threshold) ==
    IF Abs(spent_amount) > budget_amount THEN "over"
    ELSE IF budget_amount = 0 THEN "ZeroDivisionError"
    ELSE IF Abs(spent_amount) * 100 >= alert_threshold * budget_amount THEN "warning"
    ELSE "good"

budget_to_dict(budget) ==
    LET spent_amount == calculate_spent_amount(budget.user_id, budget.category_id,
                                               budget.start_date, budget.end_date)
        status == calculate_status(spent_amount, budget.amount, budget.alert_threshold)
        category == CategoryById(budget.category_id)
    IN  [id             |-> budget.id,
         userId         |-> budget.user_id,
         category       |-> IF category # None THEN category[1].name ELSE "Unknown",
         budgetAmount   |-> budget.amount,
         spentAmount    |-> Abs(spent_amount),
         startDate      |-> budget.start_date,
         endDate        |-> budget.end_date,
         alertThreshold |-> budget.alert_threshold,
         status         |-> status]

\* The budget is committed, then returned as budget_to_dict shows it.
create_budget(user_id, budget) ==
    /\ id_seq.budgets < MaxBudgets
    /\ LET new_budget == [id              |-> id_seq.budgets + 1,
                          user_id         |-> user_id,
                          category_id     |-> budget.category_id,
                          amount          |-> budget.amount,
                          start_date      |-> budget.start_date,
                          end_date        |-> budget.end_date,
                          alert_threshold |-> budget.alert_threshold]
           dict == budget_to_dict(new_budget)
       IN  /\ id_seq' = [id_seq EXCEPT !.budgets = new_budget.id]
           /\ request' = [op |-> "create_budget", user_id |-> user_id,
                          category_id |-> budget.category_id]
           /\ IF ~ForeignKeysHold(new_budget)
              THEN /\ budgets' = budgets
                   /\ response' = [op |-> "create_budget", raised |-> "IntegrityError"]
              ELSE /\ budgets' = Append(budgets, new_budget)
                   /\ response' =
                        IF dict.status = "ZeroDivisionError"
                        THEN [op |-> "create_budget", raised |-> "ZeroDivisionError"]
                        ELSE [op |-> "create_budget", raised |-> "none", budget |-> dict]
    /\ UNCHANGED <<sessions, users, categories, transactions, today>>

\* select(Budget).where(Budget.user_id == user_id)
BudgetsOf(user_id) ==
    LET Test(b) == b.user_id = user_id
    IN  SelectSeq(budgets, Test)

\* [await budget_to_dict(db, budget) for budget in budgets]; an exception in
\* one budget_to_dict ends the whole call.
get_budgets(user_id) ==
    \E rows \in Orderings(BudgetsOf(user_id)) :
        LET dicts == [i \in 1..Len(rows) |-> budget_to_dict(rows[i])]
            raised == \E i \in 1..Len(rows) : dicts[i].status = "ZeroDivisionError"
        IN  /\ request' = [op |-> "get_budgets", user_id |-> user_id]
            /\ response' = IF raised
                           THEN [op |-> "get_budgets", raised |-> "ZeroDivisionError"]
                           ELSE [op |-> "get_budgets", raised |-> "none", budgets |-> dicts]
            /\ UNCHANGED <<sessions, users, categories, budgets, transactions, id_seq, today>>

-----------------------------------------------------------------------------
(* budget_metrics_service.get_budget_alerts                                *)

\* percentage = (spent / amount) * 100 if amount > 0 else 0, compared with k:
\* percentage >= k.
PercentageAtLeast(spent_amount, budget_amount, k) ==
    IF budget_amount > 0 THEN spent_amount * 100 >= k * budget_amount ELSE 0 >= k

\* The body of the loop for one budget: the alerts it appends (none or one).
\* spent_amount = spent_result.scalar() or 0.0: the signed sum of the rows.
AlertsOfBudget(user_id, budget) ==
    LET spent_amount == OrZero(SqlSum(Amounts(
            ExpenseRows(user_id, budget.category_id, budget.start_date, budget.end_date))))
    IN  IF spent_amount > budget.amount
        THEN << [id       |-> <<"alert", budget.id, "exceeded">>,
                 budgetId |-> budget.id,
                 type     |-> "exceeded",
                 severity |-> "high",
                 dismissed |-> FALSE] >>
        ELSE IF PercentageAtLeast(spent_amount, budget.amount, budget.alert_threshold)
        THEN << [id       |-> <<"alert", budget.id, "warning">>,
                 budgetId |-> budget.id,
                 type     |-> "warning",
                 severity |-> IF PercentageAtLeast(spent_amount, budget.amount, 90)
                              THEN "medium" ELSE "low",
                 dismissed |-> FALSE] >>
        ELSE << >>

RECURSIVE AlertsOfBudgets(_, _)
AlertsOfBudgets(user_id, rows) ==
    IF rows = <<>> THEN <<>>
    ELSE AlertsOfBudget(user_id, Head(rows)) \o AlertsOfBudgets(user_id, Tail(rows))

\* severity_order.get(x["severity"], 3)
severity_order(severity) ==
    IF severity = "high" THEN 0
    ELSE IF severity = "medium" THEN 1
    ELSE IF severity = "low" THEN 2
    ELSE 3

\* An unstable insertion: the alert goes before the alerts of the same
\* severity already placed, so ties come out in reverse order.
RECURSIVE InsertByKeyMutBefore(_, _)
InsertByKeyMutBefore(sorted, x) ==
    IF sorted = <<>> THEN <<x>>
    ELSE IF severity_order(Head(sorted).severity) < severity_order(x.severity)
         THEN <<Head(sorted)>> \o InsertByKeyMutBefore(Tail(sorted), x)
         ELSE <<x>> \o sorted

\* list.sort(key=...) is stable: an element goes after every element whose key
\* is less than or equal to its own.
RECURSIVE InsertByKey(_, _)
InsertByKey(sorted, x) ==
    IF sorted = <<>> THEN <<x>>
    ELSE IF severity_order(Head(sorted).severity) <= severity_order(x.severity)
         THEN <<Head(sorted)>> \o InsertByKey(Tail(sorted), x)
         ELSE <<x>> \o sorted

RECURSIVE SortBySeverity(_, _)
SortBySeverity(sorted, alerts) ==
    IF alerts = <<>> THEN sorted
    ELSE SortBySeverity(InsertByKey(sorted, Head(alerts)), Tail(alerts))

\* `evaluated` records the order in which the loop took the budgets.
get_budget_alerts(user_id) ==
    \E rows \in Orderings(BudgetsOf(user_id)) :
        /\ request' = [op |-> "get_budget_alerts", user_id |-> user_id]
        /\ response' = [op        |-> "get_budget_alerts",
                        evaluated |-> [i \in 1..Len(rows) |-> rows[i].id],
                        alerts    |-> SortBySeverity(<<>>, AlertsOfBudgets(user_id, rows))]
        /\ UNCHANGED <<sessions, users, categories, budgets, transactions, id_seq, today>>

\* A direct call of calculate_spent_amount, as budget_to_dict makes it.
call_calculate_spent_amount(user_id, category_id, start_date, end_date) ==
    /\ request' = [op |-> "calculate_spent_amount", user_id |-> user_id,
                   category_id |-> category_id, start_date |-> start_date,
                   end_date |-> end_date]
    /\ response' = [op |-> "calculate_spent_amount",
                    value |-> calculate_spent_amount(user_id, category_id, start_date, end_date)]
    /\ UNCHANGED <<sessions, users, categories, budgets, transactions, id_seq, today>>

-----------------------------------------------------------------------------
(* The budget specification: rows are created, the listing and the alerts  *)
(* are read.                                                               *)

Users == {1, 2}

\* Two users have registered: each has its row and its default categories,
\* and no registration is under way.
TwoUsersRegistered ==
    /\ users = <<[id |-> 1, username |-> "ana"], [id |-> 2, username |-> "bob"]>>
    /\ categories = DefaultCategoriesOf(1, 1) \o DefaultCategoriesOf(2, 9)
    /\ sessions = <<>>

WindowStart == Date(2025, 3, 1)

WindowEnd == Date(2025, 3, 31)

Expense(category_id, amount, transaction_date) ==
    [category_id |-> category_id, amount |-> amount, type |-> "expense",
     transaction_date |-> transaction_date]

Income(category_id, amount, transaction_date) ==
    [category_id |-> category_id, amount |-> amount, type |-> "income",
     transaction_date |-> transaction_date]

\* Calls of POST /transactions, <<user, body>>: user 1 books an expense of
\* category 1 inside the budget window with each amount (an expense is stored
\* with either sign); user 2 books an expense of the same category.
BudgetTxCalls ==
    {<<1, Expense(1, a, WindowStart)>> : a \in {-400, 1, 101, 400}}
    \cup {<<2, Expense(1, 400, WindowStart)>>}

\* Request bodies of POST /budgets that pass BudgetCreate: amount > 0,
\* 0 <= alert_threshold <= 100, start_date <= end_date.
BudgetBody(amount, alert_threshold) ==
    [category_id |-> 1, amount |-> amount, start_date |-> WindowStart,
     end_date |-> WindowEnd, alert_threshold |-> alert_threshold]

BudgetBodies == {BudgetBody(440, 80), BudgetBody(500, 80), BudgetBody(500, 0)}

Init ==
    /\ TwoUsersRegistered
    /\ id_seq = [users |-> 2, categories |-> 16, budgets |-> 0, transactions |-> 0]
    /\ transactions = <<>>
    /\ budgets = <<>>
    /\ today = Date(2025, 3, 10)
    /\ request = NoCall
    /\ response = NoCall

Next ==
    \/ \E call \in BudgetTxCalls : create_transaction(call[1], call[2])
    \/ \E body \in BudgetBodies : create_budget(1, body)
    \/ \E u \in Users : get_budgets(u)
    \/ \E u \in Users : get_budget_alerts(u)

Spec == Init /\ [][Next]_vars

-----------------------------------------------------------------------------
(* The spend specification: one budget of user 1 on category 1 is stored;  *)
(* transactions of every user, category, type, sign and day around the     *)
(* window are created, and the spend of the budget is computed.            *)

SpentTxBodies ==
    {[category_id |-> c, amount |-> a, type |-> t, transaction_date |-> d] :
        c \in {1, 2}, a \in {-400, 400}, t \in {"expense", "income"},
        d \in {WindowStart - 1, WindowStart, WindowEnd, WindowEnd + 1}}

InitSpent ==
    /\ TwoUsersRegistered
    /\ id_seq = [users |-> 2, categories |-> 16, budgets |-> 1, transactions |-> 0]
    /\ transactions = <<>>
    /\ budgets = << [id |-> 1, user_id |-> 1, category_id |-> 1, amount |-> 500,
                     start_date |-> WindowStart, end_date |-> WindowEnd,
                     alert_threshold |-> 80] >>
    /\ today = Date(2025, 3, 10)
    /\ request = NoCall
    /\ response = NoCall

NextSpent ==
    \/ \E u \in Users, body \in SpentTxBodies : create_transaction(u, body)
    \/ \E u \in Users : get_budgets(u)
    \/ \E b \in {budgets[i] : i \in DOMAIN budgets} :
          call_calculate_spent_amount(b.user_id, b.category_id, b.start_date, b.end_date)

SpecSpent == InitSpent /\ [][NextSpent]_vars

-----------------------------------------------------------------------------
(* metrics_service.calculate_financial_summary                             *)

\* format(num / den, ".1f") for the float num / den, den # 0: an optional
\* minus sign, the integer part and one decimal, rounded to nearest with a
\* tie going to the even digit.  The float keeps the sign of a zero: 0.0
\* divided by a negative number is -0.0, and a negative value that rounds to
\* zero prints as "-0.0".
Fixed1(num, den) ==
    LET negative == IF num = 0 THEN den < 0 ELSE (num < 0) # (den < 0)
        n == Abs(num) * 10
        d == Abs(den)
        q == n \div d
        r == n % d
        tenths == IF 2 * r > d THEN q + 1
                  ELSE IF 2 * r < d THEN q
                  ELSE IF q % 2 = 0 THEN q ELSE q + 1
    IN  (IF negative THEN "-" ELSE "")
            \o ToString(tenths \div 10) \o "." \o ToString(tenths % 10)

\* if previous == 0: return "+100.0%" if current >= 0 else "0.0%"
\* change = ((current - previous) / previous) * 100.0
\* sign = "+" if current >= 0 else "-";  return f"{sign}{change:.1f}%"
calculate_percentage_change(current, previous) ==
    IF previous = 0
    THEN (IF current >= 0 THEN "+100.0%" ELSE "0.0%")
    ELSE LET sign == IF current >= 0 THEN "+" ELSE "-"
         IN  sign \o Fixed1((current - previous) * 100, previous) \o "%"

\* round(x, 2): amounts are whole units, which two decimals hold exactly.
Round2(x) == x

UserRows(user_id) ==
    LET Test(t) == t.user_id = user_id
    IN  SelectSeq(transactions, Test)

\* Transaction.amount > 0, transaction_date >= current_month_start
CurrentIncomeRows(user_id, current_month_start) ==
    LET Test(t) == /\ t.user_id = user_id
                   /\ t.amount > 0
                   /\ t.transaction_date >= current_month_start
    IN  SelectSeq(transactions, Test)

\* Transaction.amount < 0, transaction_date >= current_month_start
CurrentExpenseRows(user_id, current_month_start) ==
    LET Test(t) == /\ t.user_id = user_id
                   /\ t.amount < 0
                   /\ t.transaction_date >= current_month_start
    IN  SelectSeq(transactions, Test)

\* Transaction.amount > 0, previous_month_start <= transaction_date < previous_month_end
PreviousIncomeRows(user_id, previous_month_start, previous_month_end) ==
    LET Test(t) == /\ t.user_id = user_id
                   /\ t.amount > 0
                   /\ t.transaction_date >= previous_month_start
                   /\ t.transaction_date < previous_month_end
    IN  SelectSeq(transactions, Test)

\* Transaction.amount < 0, previous_month_start <= transaction_date < previous_month_end
PreviousExpenseRows(user_id, previous_month_start, previous_month_end) ==
    LET Test(t) == /\ t.user_id = user_id
                   /\ t.amount < 0
                   /\ t.transaction_date >= previous_month_start
                   /\ t.transaction_date < previous_month_end
    IN  SelectSeq(transactions, Test)

\* The else branch of `if today.month == 1`, which holds the whole of the
\* computation and the return statement.  `locals` keeps the two prior-period
\* totals and the windows, which the returned dict shows only through the
\* change strings.
SummaryOfMonth(user_id) ==
    LET current_month_start  == ReplaceDay1(today)
        previous_month_start == Date(YearOf(today), MonthOf(today) - 1, 1)
        previous_month_end   == current_month_start - 1
        total_balance     == OrZero(SqlSum(Amounts(UserRows(user_id))))
        monthly_income    == OrZero(SqlSum(Amounts(
                                 CurrentIncomeRows(user_id, current_month_start))))
        monthly_expenses  == OrZero(SqlSum(AbsAmounts(
                                 CurrentExpenseRows(user_id, current_month_start))))
        previous_income   == OrZero(SqlSum(AbsAmounts(
                                 PreviousIncomeRows(user_id, previous_month_start,
                                                    previous_month_end))))
        previous_expenses == OrZero(SqlSum(AbsAmounts(
                                 PreviousExpenseRows(user_id, previous_month_start,
                                                     previous_month_end))))
        savings == Max(total_balance, 0)
        balance_change  == calculate_percentage_change(total_balance,
                               total_balance - (monthly_income + monthly_expenses))
        income_change   == calculate_percentage_change(monthly_income, previous_income)
        expenses_change == calculate_percentage_change(monthly_expenses, previous_expenses)
        savings_change  == calculate_percentage_change(savings,
                               Max(total_balance - (monthly_income + monthly_expenses), 0))
    IN  [result |-> Some([total_balance    |-> Round2(total_balance),
                          monthly_income   |-> Round2(monthly_income),
                          monthly_expenses |-> Round2(monthly_expenses),
                          saving           |-> Round2(savings),
                          changes |-> [balance  |-> balance_change,
                                       income   |-> income_change,
                                       expenses |-> expenses_change,
                                       savings  |-> savings_change]]),
         locals |-> Some([current_month_start  |-> current_month_start,
                          previous_month_start |-> previous_month_start,
                          previous_month_end   |-> previous_month_end,
                          previous_income      |-> previous_income,
                          previous_expenses    |-> previous_expenses])]

\* In January the if branch only assigns two dates; the queries and the
\* return statement are in the else branch, so the function ends without a
\* return statement and its value is None.
calculate_financial_summary(user_id) ==
    LET out == IF MonthOf(today) = 1
               THEN [result |-> None, locals |-> None]
               ELSE SummaryOfMonth(user_id)
    IN  /\ request' = [op |-> "calculate_financial_summary", user_id |-> user_id]
        /\ response' = [op |-> "calculate_financial_summary",
                        result |-> out.result, locals |-> out.locals]
        /\ UNCHANGED <<sessions, users, categories, budgets, transactions, id_seq, today>>

\* The cards of the summary, one call of the helper each.
call_calculate_percentage_change ==
    /\ request.op = "calculate_percentage_change"
    /\ response = NoCall
    /\ response' = [op |-> "calculate_percentage_change",
                    value |-> calculate_percentage_change(request.current, request.previous)]
    /\ UNCHANGED <<sessions, users, categories, budgets, transactions, id_seq, today, request>>

\* budget_to_dict's call of calculate_status; an exception is the value.
call_calculate_status ==
    /\ request.op = "calculate_status"
    /\ response = NoCall
    /\ response' = [op |-> "calculate_status",
                    value |-> calculate_status(request.spent_amount, request.budget_amount,
                                               request.alert_threshold)]
    /\ UNCHANGED <<sessions, users, categories, budgets, transactions, id_seq, today, request>>

-----------------------------------------------------------------------------
(* The specification of the two pure functions: the arguments are drawn,   *)
(* the function is applied.                                                *)

PureCalls ==
    {[op |-> "calculate_percentage_change", current |-> c, previous |-> p] :
        c \in -MaxPct..MaxPct, p \in -MaxPct..MaxPct}
    \cup {[op |-> "calculate_status", spent_amount |-> s, budget_amount |-> a,
           alert_threshold |-> t] :
        s \in {-400, 0, 400, 401, 501}, a \in {-500, 0, 500}, t \in {0, 80, 100}}

InitPure ==
    /\ TwoUsersRegistered
    /\ id_seq = [users |-> 2, categories |-> 16, budgets |-> 0, transactions |-> 0]
    /\ transactions = <<>>
    /\ budgets = <<>>
    /\ today = Date(2025, 3, 10)
    /\ request \in PureCalls
    /\ response = NoCall

NextPure ==
    \/ call_calculate_percentage_change
    \/ call_calculate_status

SpecPure == InitPure /\ [][NextPure]_vars

-----------------------------------------------------------------------------
(* The summary specification: today is a day of January or of March 2025;  *)
(* transactions are created on days of the months around it, and the       *)
(* financial summary is computed.                                          *)

SummaryDays ==
    {Date(2024, 12, 31), Date(2025, 1, 31), Date(2025, 2, 1), Date(2025, 2, 28),
     Date(2025, 3, 1), Date(2025, 3, 10), Date(2025, 3, 20)}

\* An income is stored positive and an expense negative here, the
\* convention the summary's queries read.
SummaryTxCalls ==
    {<<1, Income(1, 5, d)>> : d \in SummaryDays}
    \cup {<<1, Expense(1, -3, d)>> : d \in SummaryDays}
    \cup {<<2, Income(1, 5, Date(2025, 3, 10))>>}

InitSummary ==
    /\ TwoUsersRegistered
    /\ id_seq = [users |-> 2, categories |-> 16, budgets |-> 0, transactions |-> 0]
    /\ transactions = <<>>
    /\ budgets = <<>>
    /\ today \in {Date(2025, 1, 15), Date(2025, 3, 10)}
    /\ request = NoCall
    /\ response = NoCall

NextSummary ==
    \/ \E call \in SummaryTxCalls : create_transaction(call[1], call[2])
    \/ \E u \in Users : calculate_financial_summary(u)

SpecSummary == InitSummary /\ [][NextSummary]_vars

-----------------------------------------------------------------------------
(* Claims on the budget listing and the alerts.                            *)

ListingAnswered == response.op = "get_budgets" /\ response.raised = "none"

\* C1: in every budget listing (budget amount > 0, threshold in 0..100) the
\* status of a budget is "over" iff the spent amount it reports exceeds the
\* budget amount, "warning" iff it is not over and spent / amount * 100 is at
\* least the alert threshold (equality included), and "good" otherwise; the
\* listing never raises.
C1_StatusFollowsSpent ==
    response.op = "get_budgets" =>
        /\ response.raised = "none"
        /\ \A i \in DOMAIN response.budgets :
              LET d    == response.budgets[i]
                  over == d.spentAmount > d.budgetAmount
                  warn == ~over /\ d.spentAmount * 100 >= d.alertThreshold * d.budgetAmount
              IN  /\ d.budgetAmount > 0
                  /\ d.status = "over" <=> over
                  /\ d.status = "warning" <=> warn
                  /\ d.status = "good" <=> (~over /\ ~warn)

\* A listing with the budget of 500 and threshold 80 exactly at its
\* threshold (spent 400), reported as a warning.
C1_Witness ==
    /\ ListingAnswered
    /\ \E i \in DOMAIN response.budgets :
          LET d == response.budgets[i]
          IN  /\ d.budgetAmount = 500 /\ d.alertThreshold = 80
              /\ d.spentAmount = 400 /\ d.status = "warning"

AlertsAnswered == response.op = "get_budget_alerts"

\* What the claims call the spent amount of a budget: the absolute expense
\* total of its category inside its window.
AbsExpenseTotal(b) ==
    SumSeq(AbsAmounts(ExpenseRows(b.user_id, b.category_id, b.start_date, b.end_date)))

AlertsFor(b) ==
    LET Test(a) == a.budgetId = b.id
    IN  SelectSeq(response.alerts, Test)

\* C2: get_budget_alerts emits exactly one alert for each budget of the user
\* that is over (type "exceeded", severity "high") or in warning (type
\* "warning", severity "medium" if the percentage used is at least 90, else
\* "low") and none for a budget in good status, spent being the absolute
\* expense total of the budget's category inside its window.
C2_OneAlertPerBudget ==
    AlertsAnswered =>
        \A k \in DOMAIN budgets :
            LET b     == budgets[k]
                spent == AbsExpenseTotal(b)
                over  == spent > b.amount
                warn  == ~over /\ spent * 100 >= b.alert_threshold * b.amount
                mine  == AlertsFor(b)
            IN  b.user_id = request.user_id =>
                  /\ over => /\ Len(mine) = 1
                             /\ mine[1].type = "exceeded"
                             /\ mine[1].severity = "high"
                  /\ warn => /\ Len(mine) = 1
                             /\ mine[1].type = "warning"
                             /\ mine[1].severity =
                                   IF spent * 100 >= 90 * b.amount THEN "medium" ELSE "low"
                  /\ (~over /\ ~warn) => Len(mine) = 0

\* The place of a budget in the order of evaluation.
EvaluatedAt(id) == CHOOSE k \in DOMAIN response.evaluated : response.evaluated[k] = id

\* C3: the alerts come out by severity rank, high before medium before low,
\* and alerts of equal severity keep the order in which their budgets were
\* evaluated.
C3_SortedBySeverityStable ==
    AlertsAnswered =>
        \A i, j \in DOMAIN response.alerts :
            i < j =>
                LET a == response.alerts[i]
                    b == response.alerts[j]
                IN  /\ severity_order(a.severity) <= severity_order(b.severity)
                    /\ a.severity = b.severity =>
                          EvaluatedAt(a.budgetId) < EvaluatedAt(b.budgetId)

\* The sort moved an alert: the budget evaluated first has the less severe
\* alert and comes out second.
C3_Witness ==
    /\ AlertsAnswered
    /\ Len(response.alerts) = 2
    /\ response.alerts[1].budgetId = response.evaluated[2]
    /\ response.alerts[2].budgetId = response.evaluated[1]
    /\ severity_order(response.alerts[1].severity) < severity_order(response.alerts[2].severity)

\* C4: calculate_spent_amount is the sum of the absolute values of the
\* amounts of the user's expense transactions of the category dated within
\* [start_date, end_date], both bounds included, whatever the signs of the
\* stored amounts, and 0 when no row matches.
C4_SpentIsAbsoluteSum ==
    response.op = "calculate_spent_amount" =>
        LET Test(t) == /\ t.user_id = request.user_id
                       /\ t.category_id = request.category_id
                       /\ t.type = "expense"
                       /\ request.start_date <= t.transaction_date
                       /\ t.transaction_date <= request.end_date
        IN  response.value = SumSeq(AbsAmounts(SelectSeq(transactions, Test)))

-----------------------------------------------------------------------------
(* Claims on the zero guards and the financial summary.                    *)

\* C5: evaluating a budget whose amount is 0 or negative never raises a
\* division error: the status computed for the budget listing is one of
\* "over", "warning", "good".
C5_NoDivisionError ==
    (response.op = "calculate_status" /\ request.budget_amount <= 0) =>
        response.value \in {"over", "warning", "good"}

\* C6: with previous = 0 the percentage-change helper returns "0%" when
\* current = 0, "+100.0%" when current > 0 and "-100.0%" when current < 0.
C6_ChangeFromZero ==
    (response.op = "calculate_percentage_change" /\ request.previous = 0) =>
        response.value = IF request.current = 0 THEN "0%"
                         ELSE IF request.current > 0 THEN "+100.0%"
                         ELSE "-100.0%"

\* C7: with previous # 0 the helper returns ((current - previous) / previous)
\* * 100 to one decimal place with exactly one sign character, chosen by the
\* sign of that delta: "+" when it is non-negative, "-" when it is negative.
C7_OneSignOfDelta ==
    (response.op = "calculate_percentage_change" /\ request.previous # 0) =>
        LET num == (request.current - request.previous) * 100
            den == request.previous
            negative == num # 0 /\ ((num < 0) # (den < 0))
        IN  response.value =
                (IF negative THEN "-" ELSE "+") \o Fixed1(Abs(num), Abs(den)) \o "%"

SummaryAnswered == response.op = "calculate_financial_summary"

\* C8: calculate_financial_summary returns a summary for every value of
\* today, the days of January included.
C8_SummaryDefined ==
    SummaryAnswered => response.result # None

\* The previous calendar month of today: its first and its last day.
PrevMonthFirst ==
    IF MonthOf(today) = 1 THEN Date(YearOf(today) - 1, 12, 1)
    ELSE Date(YearOf(today), MonthOf(today) - 1, 1)

PrevMonthLast ==
    IF MonthOf(today) = 1 THEN Date(YearOf(today) - 1, 12, 31)
    ELSE Date(YearOf(today), MonthOf(today) - 1,
              DaysInMonth(YearOf(today), MonthOf(today) - 1))

\* The rows of a user dated within [first, last] whose amount has the sign.
RowsWithin(user_id, first, last, positive) ==
    LET Test(t) == /\ t.user_id = user_id
                   /\ first <= t.transaction_date
                   /\ t.transaction_date <= last
                   /\ IF positive THEN t.amount > 0 ELSE t.amount < 0
    IN  SelectSeq(transactions, Test)

\* C9: the prior-period income and expense totals count every transaction
\* dated from the first through the last day of the previous month, the last
\* day included.
C9_PriorWindowInclusive ==
    (SummaryAnswered /\ response.locals # None) =>
        LET u == request.user_id
            l == response.locals[1]
        IN  /\ l.previous_income =
                  SumSeq(AbsAmounts(RowsWithin(u, PrevMonthFirst, PrevMonthLast, TRUE)))
            /\ l.previous_expenses =
                  SumSeq(AbsAmounts(RowsWithin(u, PrevMonthFirst, PrevMonthLast, FALSE)))

\* C10: monthly_income and monthly_expenses count exactly the transactions
\* dated within [first day of today's month, today]: a transaction dated
\* after today or before the month start counts for neither.
C10_CurrentWindowExact ==
    (SummaryAnswered /\ response.result # None) =>
        LET u == request.user_id
            r == response.result[1]
        IN  /\ r.monthly_income =
                  SumSeq(Amounts(RowsWithin(u, ReplaceDay1(today), today, TRUE)))
            /\ r.monthly_expenses =
                  SumSeq(AbsAmounts(RowsWithin(u, ReplaceDay1(today), today, FALSE)))

\* C11: the balance change of the summary is the percentage change of
\* total_balance against previous_balance = total_balance - (monthly_income
\* - monthly_expenses): the net delta of the current month, income minus
\* expenses, is backed out of the running total.
C11_BalanceBacksOutNetDelta ==
    (SummaryAnswered /\ response.result # None) =>
        LET r == response.result[1]
            previous_balance == r.total_balance - (r.monthly_income - r.monthly_expenses)
        IN  r.changes.balance = calculate_percentage_change(r.total_balance, previous_balance)

-----------------------------------------------------------------------------
(* budget_metrics_service.get_budget_performance                           *)

\* The float num / den of two whole numbers, den > 0, kept as the exact
\* quotient; comparisons with it are cross multiplications.
Quotient(num, den) == [num |-> num, den |-> den]

\* The body of the loop for one budget.  spent_amount is the signed sum of
\* the rows (scalar() or 0.0); days_elapsed and days_remaining are plain
\* differences of dates, of either sign.
PerformanceOfBudget(user_id, budget) ==
    LET spent_amount == OrZero(SqlSum(Amounts(
            ExpenseRows(user_id, budget.category_id, budget.start_date, budget.end_date))))
        category == CategoryById(budget.category_id)
        percentage_used == IF budget.amount > 0
                           THEN Quotient(spent_amount * 100, budget.amount)
                           ELSE Quotient(0, 1)
        days_total == (budget.end_date - budget.start_date) + 1
        days_elapsed == (today - budget.start_date) + 1
        days_remaining == budget.end_date - today
        expected_spending == IF days_total > 0
                             THEN Quotient(days_elapsed * budget.amount, days_total)
                             ELSE Quotient(0, 1)
        \* spent_amount > expected_spending * 1.1, spent_amount < expected_spending * 0.9
        spending_pace ==
            IF spent_amount * expected_spending.den * 10 > expected_spending.num * 11
            THEN "over_pace"
            ELSE IF spent_amount * expected_spending.den * 10 < expected_spending.num * 9
            THEN "under_pace"
            ELSE "on_track"
    IN  [budgetId         |-> budget.id,
         categoryName     |-> IF category # None THEN category[1].name ELSE "Unknown",
         budgetAmount     |-> budget.amount,
         spentAmount      |-> spent_amount,
         percentageUsed   |-> percentage_used,
         daysRemaining    |-> Max(0, days_remaining),
         daysTotal        |-> days_total,
         expectedSpending |-> expected_spending,
         spendingPace     |-> spending_pace,
         isActive         |-> budget.start_date <= today /\ today <= budget.end_date]

get_budget_performance(user_id) ==
    \E rows \in Orderings(BudgetsOf(user_id)) :
        /\ request' = [op |-> "get_budget_performance", user_id |-> user_id]
        /\ response' = [op |-> "get_budget_performance",
                        performance |-> [i \in 1..Len(rows) |->
                                            PerformanceOfBudget(user_id, rows[i])]]
        /\ UNCHANGED <<sessions, users, categories, budgets, transactions, id_seq, today>>

-----------------------------------------------------------------------------
(* The performance specification: today is a day before, inside or after   *)
(* the window of the budgets; expenses are booked on the first day of the  *)
(* window, and the performance of the budgets is read.                     *)

PerformanceDays == {Date(2025, 2, 20), Date(2025, 3, 10), Date(2025, 4, 15)}

\* With amount 310 over the 31 days of the window the expected spending on
\* day 10 is 100: 80 is under the pace, 100 on track and 400 over it.
PerformanceTxCalls ==
    {<<1, Expense(1, a, WindowStart)>> : a \in {-400, 80, 100, 400}}

PerformanceBodies == {BudgetBody(310, 80), BudgetBody(500, 80)}

InitPerformance ==
    /\ TwoUsersRegistered
    /\ id_seq = [users |-> 2, categories |-> 16, budgets |-> 0, transactions |-> 0]
    /\ transactions = <<>>
    /\ budgets = <<>>
    /\ today \in PerformanceDays
    /\ request = NoCall
    /\ response = NoCall

NextPerformance ==
    \/ \E call \in PerformanceTxCalls : create_transaction(call[1], call[2])
    \/ \E body \in PerformanceBodies : create_budget(1, body)
    \/ \E u \in Users : get_budget_performance(u)

SpecPerformance == InitPerformance /\ [][NextPerformance]_vars

-----------------------------------------------------------------------------
(* Claims on the budget performance.                                       *)

PerformanceAnswered == response.op = "get_budget_performance"

\* C12: for every budget and every value of today (before start_date,
\* inside the window, after end_date) days_elapsed lies within
\* [0, days_total], so that expected_spending = days_elapsed / days_total *
\* amount lies within [0, budget amount].
C12_ExpectedWithinBudget ==
    PerformanceAnswered =>
        \A i \in DOMAIN response.performance :
            LET d == response.performance[i]
                e == d.expectedSpending
            IN  /\ 0 <= e.num
                /\ e.num <= d.budgetAmount * e.den

\* C13: spendingPace is "over_pace" iff spent > expected_spending * 1.1,
\* "under_pace" iff spent < expected_spending * 0.9 and "on_track"
\* otherwise, spent being the absolute expense total of the budget's
\* category inside its window; daysRemaining = max(0, end_date - today) and
\* isActive iff start_date <= today <= end_date.
C13_PaceOfAbsoluteSpend ==
    PerformanceAnswered =>
        \A i \in DOMAIN response.performance :
            LET d     == response.performance[i]
                b     == CHOOSE b \in {budgets[k] : k \in DOMAIN budgets} : b.id = d.budgetId
                spent == AbsExpenseTotal(b)
                e     == d.expectedSpending
                over  == spent * e.den * 10 > e.num * 11
                under == spent * e.den * 10 < e.num * 9
            IN  /\ d.spendingPace = "over_pace" <=> over
                /\ d.spendingPace = "under_pace" <=> under
                /\ d.spendingPace = "on_track" <=> (~over /\ ~under)
                /\ d.daysRemaining = Max(0, b.end_date - today)
                /\ d.isActive <=> (b.start_date <= today /\ today <= b.end_date)

-----------------------------------------------------------------------------
(* ai_service.generate_fallback_insights                                   *)
(*                                                                         *)
(* A dict keyed by category (category_expenses) is the sequence of its     *)
(* items in insertion order, the order a Python dict iterates in.  The     *)
(* products with 1.05 and 0.15 are kept as exact quotients of hundredths.  *)
(* An insight carries the keys the code gives it; of the message texts     *)
(* the model keeps the number they print.                                  *)

\* total_expenses > total_income * 0.9 with the strict test replaced by >=.
HighExpensesMutAtLeast(total_expenses, total_income) ==
    total_expenses * 10 >= total_income * 9

\* total_expenses > total_income * 0.9
HighExpenses(total_expenses, total_income) ==
    total_expenses * 10 > total_income * 9

\* f"{(total_expenses / total_income * 100) if total_income > 0 else 0:.1f}"
ExpenseRatioText(total_expenses, total_income) ==
    IF total_income > 0 THEN Fixed1(total_expenses * 100, total_income) ELSE "0.0"

\* The first item of the dict, whatever the totals.
MaxItemMutFirst(best, items) == best

\* max(items, key=lambda x: x[1]) from the item `best` on: a later item
\* replaces the best one only when its total is strictly greater, so of
\* equal totals the first stays.
RECURSIVE MaxItem(_, _)
MaxItem(best, items) ==
    IF items = <<>> THEN best
    ELSE MaxItem(IF Head(items).total > best.total THEN Head(items) ELSE best, Tail(items))

generate_fallback_insights(financial_summary, budget_status, category_expenses) ==
    LET total_income == financial_summary.monthly_income
        total_expenses == financial_summary.monthly_expenses
        next_month_prediction == Quotient(total_expenses * 105, 100)
        prediction ==
            IF total_expenses > 0
            THEN << [type |-> "prediction", title |-> "Predicción de Gastos",
                     message |-> next_month_prediction, confidence |-> "Media",
                     icon |-> "brain", color |-> "primary",
                     amount |-> next_month_prediction] >>
            ELSE << >>
        budget_alert == budget_status[1]
        warning ==
            IF budget_status # <<>>
            THEN << [type |-> "warning", title |-> "Alerta de Presupuesto",
                     message |-> budget_alert.exceeded_by, confidence |-> "Crítico",
                     icon |-> "alert-triangle", color |-> "destructive",
                     amount |-> budget_alert.exceeded_by,
                     category |-> budget_alert.category] >>
            ELSE IF HighExpenses(total_expenses, total_income)
            THEN << [type |-> "warning", title |-> "Gastos Elevados",
                     message |-> ExpenseRatioText(total_expenses, total_income),
                     confidence |-> "Alta",
                     icon |-> "alert-triangle", color |-> "destructive"] >>
            ELSE << >>
        highest_category == MaxItem(Head(category_expenses), Tail(category_expenses))
        potential_saving == Quotient(highest_category.total * 15, 100)
        tip ==
            IF category_expenses # <<>>
            THEN << [type |-> "tip", title |-> "Oportunidad de Ahorro",
                     message |-> potential_saving, confidence |-> "Media",
                     icon |-> "lightbulb", color |-> "secondary",
                     amount |-> potential_saving,
                     category |-> highest_category.category] >>
            ELSE << [type |-> "tip", title |-> "Consejo Financiero",
                     message |-> "Establece presupuestos por categoría",
                     confidence |-> "Alta",
                     icon |-> "lightbulb", color |-> "secondary"] >>
    IN  [insights |-> prediction \o warning \o tip]

call_generate_fallback_insights ==
    /\ request.op = "generate_fallback_insights"
    /\ response = NoCall
    /\ response' = [op |-> "generate_fallback_insights",
                    value |-> generate_fallback_insights(request.financial_summary,
                                  request.budget_status, request.category_expenses)]
    /\ UNCHANGED <<sessions, users, categories, budgets, transactions, id_seq, today, request>>

-----------------------------------------------------------------------------
(* ai_service: the calls of the language model.                            *)
(*                                                                         *)
(* model.generate_content(prompt) and response.text either raise or give   *)
(* a text.  Of a text the model keeps what extract_json_from_response      *)
(* looks at: what surrounds the payload (nothing, a ```json fence, a bare  *)
(* ``` fence, or prose), whether the payload ends in " }" (a space before  *)
(* the closing brace, which the pattern r'\{.* \}' asks for), and the      *)
(* payload: a JSON object with its keys, a JSON array of numbers, a JSON   *)
(* number, or text that is not JSON.                                       *)

JsonObject(keys) == [json |-> "object", keys |-> keys]

JsonArray == [json |-> "array"]

JsonNumber == [json |-> "number"]

NotJson == [json |-> "invalid"]

\* The dict returned when json.loads fails.
ParseErrorDict == JsonObject({"error", "raw_response", "parsing_error"})

extract_json_from_response(text) ==
    LET json_match == text.payload.json = "object" /\ text.spaced
        \* after the fences are cut away: json.loads of what is left
        loadable == text.wrap \in {"none", "fence_json", "fence"}
                    /\ text.payload # NotJson
    IN  IF json_match THEN text.payload
        ELSE IF loadable THEN text.payload
        ELSE ParseErrorDict

\* No try around generate_content: what it raises leaves the function.
predict_future_transactions(llm) ==
    IF llm.raises THEN [raised |-> "Exception"]
    ELSE [raised |-> "none", value |-> extract_json_from_response(llm.text)]

\* category_expenses[category] = category_expenses.get(category, 0) + abs(amount)
AddExpense(items, category, amount) ==
    IF \E i \in DOMAIN items : items[i].category = category
    THEN [i \in DOMAIN items |->
            IF items[i].category = category
            THEN [items[i] EXCEPT !.total = @ + amount]
            ELSE items[i]]
    ELSE Append(items, [category |-> category, total |-> amount])

\* for tx in transactions: if tx['amount'] < 0: ...
RECURSIVE CategoryExpenses(_, _)
CategoryExpenses(category_expenses, txs) ==
    IF txs = <<>> THEN category_expenses
    ELSE CategoryExpenses(
            IF Head(txs).amount < 0
            THEN AddExpense(category_expenses, Head(txs).category, Abs(Head(txs).amount))
            ELSE category_expenses,
            Tail(txs))

\* for budget in budgets: if budget.get('status') == 'over': ...
BudgetStatus(budget_dicts) ==
    LET Over(b) == b.status = "over"
        over == SelectSeq(budget_dicts, Over)
    IN  [i \in DOMAIN over |->
            [category    |-> over[i].category,
             amount      |-> over[i].spent,
             budget      |-> over[i].budget,
             exceeded_by |-> over[i].spent - over[i].budget]]

\* try: the call, the parse, and `"insights" not in result`, which raises
\* TypeError on a number; except Exception: the fallback.
generate_financial_insights(txs, budget_dicts, financial_summary, llm) ==
    LET category_expenses == CategoryExpenses(<<>>, txs)
        budget_status == BudgetStatus(budget_dicts)
        fallback == generate_fallback_insights(financial_summary, budget_status,
                                               category_expenses)
        result == extract_json_from_response(llm.text)
    IN  IF llm.raises THEN [raised |-> "none", value |-> fallback]
        ELSE IF result.json = "number" THEN [raised |-> "none", value |-> fallback]
        ELSE IF result.json = "array" THEN [raised |-> "none", value |-> fallback]
        ELSE IF "insights" \notin result.keys THEN [raised |-> "none", value |-> fallback]
        ELSE [raised |-> "none", value |-> result]

call_generate_financial_insights ==
    /\ request.op = "generate_financial_insights"
    /\ response = NoCall
    /\ response' = [op |-> "generate_financial_insights"] @@
                   generate_financial_insights(request.transactions, request.budgets,
                                               request.financial_summary, request.llm)
    /\ UNCHANGED <<sessions, users, categories, budgets, transactions, id_seq, today, request>>

call_predict_future_transactions ==
    /\ request.op = "predict_future_transactions"
    /\ response = NoCall
    /\ response' = [op |-> "predict_future_transactions"] @@
                   predict_future_transactions(request.llm)
    /\ UNCHANGED <<sessions, users, categories, budgets, transactions, id_seq, today, request>>

-----------------------------------------------------------------------------
(* The insight specification: the arguments of one call are drawn, the     *)
(* function is applied.                                                    *)

Texts ==
    {[wrap |-> w, spaced |-> sp, payload |-> JsonObject(k)] :
        w \in {"none", "fence_json", "fence", "prose"}, sp \in BOOLEAN,
        k \in {{"insights"}, {"predictions"}, {"advice"}}}
    \cup {[wrap |-> w, spaced |-> FALSE, payload |-> v] :
        w \in {"none", "fence_json", "fence", "prose"},
        v \in {JsonArray, JsonNumber, NotJson}}

LLMOutcomes ==
    {[raises |-> TRUE]} \cup {[raises |-> FALSE, text |-> t] : t \in Texts}

Summaries ==
    {[total_balance |-> i - e, monthly_income |-> i, monthly_expenses |-> e] :
        i \in {0, 10, 100}, e \in {0, 9, 10, 90, 91}}

ExceededLists ==
    {<< >>,
     << [category |-> "Food", amount |-> 400, budget |-> 300, exceeded_by |-> 100] >>,
     << [category |-> "Transport", amount |-> 120, budget |-> 100, exceeded_by |-> 20],
        [category |-> "Food", amount |-> 400, budget |-> 300, exceeded_by |-> 100] >>}

CategoryExpenseMaps ==
    {<< >>,
     << [category |-> "Food", total |-> 300], [category |-> "Transport", total |-> 100] >>,
     << [category |-> "Transport", total |-> 100], [category |-> "Food", total |-> 300] >>,
     << [category |-> "Food", total |-> 100], [category |-> "Transport", total |-> 100] >>}

\* The transactions get_ai_insights_data hands over, and the dicts of the
\* dashboard budget overview.
InsightTransactions ==
    {<< [amount |-> 500, category |-> "Trabajo"] >>,
     << [amount |-> -100, category |-> "Transport"], [amount |-> -250, category |-> "Food"],
        [amount |-> 500, category |-> "Trabajo"], [amount |-> -50, category |-> "Food"] >>}

InsightBudgets ==
    {<< >>,
     << [category |-> "Transport", spent |-> 90, budget |-> 100, status |-> "warning"],
        [category |-> "Food", spent |-> 400, budget |-> 300, status |-> "over"] >>}

InsightCalls ==
    {[op |-> "generate_fallback_insights", financial_summary |-> f,
      budget_status |-> b, category_expenses |-> c] :
        f \in Summaries, b \in ExceededLists, c \in CategoryExpenseMaps}
    \cup {[op |-> "generate_financial_insights", transactions |-> t, budgets |-> b,
           financial_summary |-> f, llm |-> l] :
        t \in InsightTransactions, b \in InsightBudgets,
        f \in {g \in Summaries : g.monthly_income = 100}, l \in LLMOutcomes}
    \cup {[op |-> "predict_future_transactions", llm |-> l] : l \in LLMOutcomes}

InitInsights ==
    /\ TwoUsersRegistered
    /\ id_seq = [users |-> 2, categories |-> 16, budgets |-> 0, transactions |-> 0]
    /\ transactions = <<>>
    /\ budgets = <<>>
    /\ today = Date(2025, 3, 10)
    /\ request \in InsightCalls
    /\ response = NoCall

NextInsights ==
    \/ call_generate_fallback_insights
    \/ call_generate_financial_insights
    \/ call_predict_future_transactions

SpecInsights == InitInsights /\ [][NextInsights]_vars

-----------------------------------------------------------------------------
(* Claims on the insight engine.                                           *)

\* The call of the language model failed: it raised, its text does not
\* parse, or what it parses to is not an object with the key asked for.
LLMFailed(llm, key) ==
    \/ llm.raises
    \/ LET result == extract_json_from_response(llm.text)
       IN  \/ result.json # "object"
           \/ key \notin result.keys

\* C14: for every outcome of the call of the language model (it raises, the
\* text is not parseable JSON, the parsed JSON lacks the expected key) no
\* operation of the insight engine that calls it (generate_financial_insights,
\* predict_future_transactions) propagates an exception, and
\* generate_financial_insights returns exactly the result of
\* generate_fallback_insights on the same summary, exceeded budgets and
\* category expenses.
C14_NoExceptionFromLLM ==
    /\ (response.op = "predict_future_transactions"
            /\ LLMFailed(request.llm, "predictions")) =>
          response.raised = "none"
    /\ (response.op = "generate_financial_insights"
            /\ LLMFailed(request.llm, "insights")) =>
          /\ response.raised = "none"
          /\ response.value =
                generate_fallback_insights(request.financial_summary,
                    BudgetStatus(request.budgets),
                    CategoryExpenses(<<>>, request.transactions))

WarningsOf(insights) ==
    LET Test(x) == x.type = "warning"
    IN  SelectSeq(insights, Test)

TipsOf(insights) ==
    LET Test(x) == x.type = "tip"
    IN  SelectSeq(insights, Test)

FallbackAnswered == response.op = "generate_fallback_insights"

\* C15: generate_fallback_insights emits at most one "warning" insight: with
\* a non-empty exceeded-budget list it reports the overage of the first
\* exceeded budget with confidence "Crítico"; otherwise, iff monthly_expenses
\* > monthly_income * 0.9, it reports the expense ratio with confidence
\* "Alta"; with monthly_income = 0 and monthly_expenses = 0 no warning is
\* emitted, and no division error occurs, nor with monthly_income = 0 and
\* positive expenses.
C15_OneWarning ==
    FallbackAnswered =>
        LET f        == request.financial_summary
            exceeded == request.budget_status
            warnings == WarningsOf(response.value.insights)
        IN  /\ Len(warnings) <= 1
            /\ exceeded # <<>> =>
                  /\ Len(warnings) = 1
                  /\ warnings[1].confidence = "Crítico"
                  /\ warnings[1].amount = exceeded[1].exceeded_by
                  /\ warnings[1].category = exceeded[1].category
            /\ exceeded = <<>> =>
                  /\ Len(warnings) = 1 <=> f.monthly_expenses * 10 > f.monthly_income * 9
                  /\ Len(warnings) = 1 =>
                        /\ warnings[1].confidence = "Alta"
                        /\ warnings[1].message =
                              IF f.monthly_income = 0 THEN "0.0"
                              ELSE Fixed1(f.monthly_expenses * 100, f.monthly_income)
            /\ (exceeded = <<>> /\ f.monthly_income = 0 /\ f.monthly_expenses = 0) =>
                  Len(warnings) = 0

\* With no income and an expense of 9 the ratio warning is emitted, its
\* ratio printed as 0.0.
C15_Witness ==
    /\ FallbackAnswered
    /\ request.budget_status = <<>>
    /\ request.financial_summary.monthly_income = 0
    /\ request.financial_summary.monthly_expenses = 9
    /\ Len(WarningsOf(response.value.insights)) = 1
    /\ WarningsOf(response.value.insights)[1].confidence = "Alta"
    /\ WarningsOf(response.value.insights)[1].message = "0.0"

\* C16: generate_fallback_insights emits exactly one "tip" insight: with a
\* non-empty category-expense map the tip names the category with the
\* highest expense total and an amount of 15% of that total ({Food: 300,
\* Transport: 100} gives 45.0 on Food); with an empty map it is the generic
\* budgeting tip, with no amount and no category.
C16_OneTip ==
    FallbackAnswered =>
        LET items == request.category_expenses
            tips  == TipsOf(response.value.insights)
        IN  /\ Len(tips) = 1
            /\ items # <<>> =>
                  \E i \in DOMAIN items :
                      /\ \A j \in DOMAIN items : items[j].total <= items[i].total
                      /\ tips[1].category = items[i].category
                      /\ tips[1].amount.num * 100 = 15 * items[i].total * tips[1].amount.den
            /\ items = <<>> =>
                  /\ tips[1].title = "Consejo Financiero"
                  /\ "amount" \notin DOMAIN tips[1]
                  /\ "category" \notin DOMAIN tips[1]

\* The map {Transport: 100, Food: 300}: the tip is 45 on Food, the second
\* item of the map.
C16_Witness ==
    /\ FallbackAnswered
    /\ request.category_expenses =
          << [category |-> "Transport", total |-> 100], [category |-> "Food", total |-> 300] >>
    /\ TipsOf(response.value.insights)[1].category = "Food"
    /\ TipsOf(response.value.insights)[1].amount.num =
          45 * TipsOf(response.value.insights)[1].amount.den

-----------------------------------------------------------------------------
(* metrics_service.get_budget_overview: the budgets of the dashboard.      *)

Min(a, b) == IF a <= b THEN a ELSE b

\* round(x, 1) of the float x = num / den >= 0, as a quotient of tenths;
\* a tie goes to the even digit.
Round1(x) ==
    LET n == x.num * 10
        q == n \div x.den
        r == n % x.den
        tenths == IF 2 * r > x.den THEN q + 1
                  ELSE IF 2 * r < x.den THEN q
                  ELSE IF q % 2 = 0 THEN q ELSE q + 1
    IN  Quotient(tenths, 10)

\* Budget.user_id == user_id, Budget.start_date <= current_month_end,
\* Budget.end_date >= current_month_start, with current_month_end = today.
DashboardBudgets(user_id) ==
    LET Test(b) == /\ b.user_id = user_id
                   /\ b.start_date <= today
                   /\ b.end_date >= ReplaceDay1(today)
    IN  SelectSeq(budgets, Test)

\* The rows of spent_query: an expense is a row with amount < 0, whatever
\* its type; the window is the budget's, cut to [month start, today].
DashboardSpentRows(user_id, budget) ==
    LET Test(t) == /\ t.user_id = user_id
                   /\ t.category_id = budget.category_id
                   /\ t.amount < 0
                   /\ t.transaction_date >= Max(budget.start_date, ReplaceDay1(today))
                   /\ t.transaction_date <= Min(budget.end_date, today)
    IN  SelectSeq(transactions, Test)

\* The dict of one budget; budget.category.name is read with no test of
\* budget.category (the caller sees to the case of None).
DashboardOfBudget(user_id, budget) ==
    LET spent == OrZero(SqlSum(AbsAmounts(DashboardSpentRows(user_id, budget))))
        budget_amount == budget.amount
        percentage == IF budget_amount > 0 THEN Quotient(spent * 100, budget_amount)
                      ELSE Quotient(0, 1)
        status == IF percentage.num > 100 * percentage.den THEN "over"
                  ELSE IF percentage.num >= 80 * percentage.den THEN "warning"
                  ELSE "good"
    IN  [category   |-> CategoryById(budget.category_id)[1].name,
         spent      |-> Round2(spent),
         budget     |-> Round2(budget_amount),
         percentage |-> Round1(percentage),
         remaining  |-> Round2(Max(budget_amount - spent, 0)),
         status     |-> status]

\* `evaluated` records the budgets in the order the loop took them.
metrics_get_budget_overview(user_id) ==
    \E rows \in Orderings(DashboardBudgets(user_id)) :
        LET raised == \E i \in DOMAIN rows : CategoryById(rows[i].category_id) = None
        IN  /\ request' = [op |-> "metrics.get_budget_overview", user_id |-> user_id]
            /\ response' =
                  IF raised
                  THEN [op |-> "metrics.get_budget_overview", raised |-> "AttributeError"]
                  ELSE [op |-> "metrics.get_budget_overview", raised |-> "none",
                        evaluated |-> [i \in DOMAIN rows |-> rows[i].id],
                        data |-> [i \in DOMAIN rows |-> DashboardOfBudget(user_id, rows[i])]]
            /\ UNCHANGED <<sessions, users, categories, budgets, transactions, id_seq, today>>

-----------------------------------------------------------------------------
(* The dashboard specification: on the last day of the budget window, so   *)
(* that the dashboard reads the whole window, user 1 books transactions of *)
(* either type and sign, on category 1 and on a category id that no        *)
(* category has, creates budgets, and reads the listing and the dashboard. *)

\* An id that no category has.
UnknownCategoryId == 99

DashboardTxBodies ==
    {[category_id |-> 1, amount |-> a, type |-> t, transaction_date |-> WindowStart] :
        a \in {-400, 400}, t \in {"expense", "income"}}
    \cup {Expense(UnknownCategoryId, 400, WindowStart)}

DashboardBodies ==
    {BudgetBody(500, 80), BudgetBody(500, 50),
     [BudgetBody(500, 80) EXCEPT !.category_id = UnknownCategoryId]}

InitDashboard ==
    /\ TwoUsersRegistered
    /\ id_seq = [users |-> 2, categories |-> 16, budgets |-> 0, transactions |-> 0]
    /\ transactions = <<>>
    /\ budgets = <<>>
    /\ today = WindowEnd
    /\ request = NoCall
    /\ response = NoCall

NextDashboard ==
    \/ \E body \in DashboardTxBodies : create_transaction(1, body)
    \/ \E body \in DashboardBodies : create_budget(1, body)
    \/ get_budgets(1)
    \/ metrics_get_budget_overview(1)

SpecDashboard == InitDashboard /\ [][NextDashboard]_vars

-----------------------------------------------------------------------------
(* Claims on missing categories and on what counts as an expense.          *)

CategoryIds == {categories[i].id : i \in DOMAIN categories}

\* C17: when the category referenced by a budget or transaction cannot be
\* found, the path that builds the response (here: the responses of
\* create_transaction and create_budget, the budget listing, the dashboard
\* budget overview) reports a sentinel category name such as "Unknown"
\* instead of raising.
C17_UnknownCategorySentinel ==
    /\ (response.op = "create_transaction" /\ request.category_id \notin CategoryIds) =>
          /\ response.raised = "none"
          /\ response.category = "Unknown"
    /\ (response.op = "create_budget" /\ request.category_id \notin CategoryIds) =>
          /\ response.raised = "none"
          /\ response.budget.category = "Unknown"
    /\ response.op \in {"get_budgets", "metrics.get_budget_overview"} =>
          response.raised = "none"

\* C18: every aggregation site classifies a stored transaction as expense
\* or income by the same rule: over the same rows and the same window the
\* expense total of the type-based sites (calculate_spent_amount, as the
\* budget listing reports it) equals the expense total of the sign-based
\* sites (the dashboard budget overview), also for rows whose sign disagrees
\* with their type.
C18_SameExpenseRule ==
    (response.op = "metrics.get_budget_overview" /\ response.raised = "none") =>
        \A i \in DOMAIN response.data :
            LET b == CHOOSE b \in {budgets[k] : k \in DOMAIN budgets} :
                        b.id = response.evaluated[i]
                same_window == /\ Max(b.start_date, ReplaceDay1(today)) = b.start_date
                               /\ Min(b.end_date, today) = b.end_date
            IN  same_window =>
                    response.data[i].spent = budget_to_dict(b).spentAmount

-----------------------------------------------------------------------------
(* Updates and deletes: budget_service.update_budget,                      *)
(* transaction_service.update_transaction, categories_service and          *)
(* user_service.delete_user.                                               *)

\* update(Table).values(body.model_dump(exclude_unset=True)): the columns
\* the body sets take its values, the others keep theirs.  A body is the
\* record of the fields it sets.
ApplyValues(row, values) ==
    [column \in DOMAIN row |->
        IF column \in DOMAIN values THEN values[column] ELSE row[column]]

\* The rows left once the rows whose foreign key `column` points at a
\* deleted row are left to stand: no cascade.
OnDeleteCascadeMutNoAction(rows, column, deleted) == rows

\* ForeignKey(..., ondelete="CASCADE"): the rows left once the rows whose
\* foreign key `column` points at a deleted row are deleted with it.
OnDeleteCascade(rows, column, deleted) ==
    LET Kept(row) == row[column] \notin deleted
    IN  SelectSeq(rows, Kept)

\* UPDATE budgets SET ... WHERE id = budget_id AND user_id = user_id
\* RETURNING; the dates of the body are stored as they come, with no look
\* at the dates the row keeps.
update_budget(user_id, budget_id, budget_update) ==
    LET Hit(b) == b.id = budget_id /\ b.user_id = user_id
        hit == SelectSeq(budgets, Hit)
        updated_budget == ApplyValues(hit[1], budget_update)
    IN  /\ request' = [op |-> "update_budget", user_id |-> user_id,
                       budget_id |-> budget_id, budget_update |-> budget_update]
        /\ IF hit = <<>>
           THEN /\ budgets' = budgets
                /\ response' = [op |-> "update_budget", raised |-> "none", budget |-> None]
           ELSE IF ~ForeignKeysHold(updated_budget)
           THEN /\ budgets' = budgets
                /\ response' = [op |-> "update_budget", raised |-> "IntegrityError"]
           ELSE /\ budgets' = [i \in DOMAIN budgets |->
                                  IF Hit(budgets[i]) THEN updated_budget ELSE budgets[i]]
                /\ response' = [op |-> "update_budget", raised |-> "none",
                                budget |-> Some(budget_to_dict(updated_budget))]
        /\ UNCHANGED <<sessions, users, categories, transactions, id_seq, today>>

\* The same statement on transactions; the response reads category.name.
update_transaction(user_id, transaction_id, transaction_update) ==
    LET Hit(t) == t.id = transaction_id /\ t.user_id = user_id
        hit == SelectSeq(transactions, Hit)
        updated_transaction == ApplyValues(hit[1], transaction_update)
        category == CategoryById(updated_transaction.category_id)
    IN  /\ request' = [op |-> "update_transaction", user_id |-> user_id,
                       transaction_id |-> transaction_id]
        /\ IF hit = <<>>
           THEN /\ transactions' = transactions
                /\ response' = [op |-> "update_transaction", raised |-> "none",
                                transaction |-> None]
           ELSE IF ~ForeignKeysHold(updated_transaction)
           THEN /\ transactions' = transactions
                /\ response' = [op |-> "update_transaction", raised |-> "IntegrityError"]
           ELSE /\ transactions' = [i \in DOMAIN transactions |->
                                       IF Hit(transactions[i]) THEN updated_transaction
                                       ELSE transactions[i]]
                /\ response' =
                      IF category = None
                      THEN [op |-> "update_transaction", raised |-> "AttributeError"]
                      ELSE [op |-> "update_transaction", raised |-> "none",
                            transaction |-> Some([id |-> updated_transaction.id,
                                                  category |-> category[1].name])]
        /\ UNCHANGED <<sessions, users, categories, budgets, id_seq, today>>

create_category(user_id, name) ==
    /\ id_seq.categories < MaxCategories
    /\ LET new_category == [id |-> id_seq.categories + 1, user_id |-> user_id, name |-> name]
       IN  /\ id_seq' = [id_seq EXCEPT !.categories = new_category.id]
           /\ categories' = Append(categories, new_category)
           /\ request' = [op |-> "create_category", user_id |-> user_id]
           /\ response' = [op |-> "create_category", category |-> new_category]
    /\ UNCHANGED <<sessions, users, budgets, transactions, today>>

\* DELETE FROM categories WHERE id = category_id AND user_id = user_id; the
\* database deletes the budgets and transactions of the category with it.
delete_category(user_id, category_id) ==
    LET Hit(c) == c.id = category_id /\ c.user_id = user_id
        Kept(c) == ~Hit(c)
        deleted == {categories[i].id : i \in {k \in DOMAIN categories : Hit(categories[k])}}
    IN  /\ categories' = SelectSeq(categories, Kept)
        /\ budgets' = OnDeleteCascade(budgets, "category_id", deleted)
        /\ transactions' = OnDeleteCascade(transactions, "category_id", deleted)
        /\ request' = [op |-> "delete_category", user_id |-> user_id,
                       category_id |-> category_id]
        /\ response' = [op |-> "delete_category", message |-> "Category deleted"]
        /\ UNCHANGED <<sessions, users, id_seq, today>>

\* DELETE FROM users WHERE id = user_id; the database deletes the user's
\* categories, budgets and transactions, and with the categories the
\* budgets and transactions that point at them, whoever owns those.
delete_user(user_id) ==
    LET Kept(u) == u.id # user_id
        deleted_categories ==
            {categories[i].id : i \in {k \in DOMAIN categories : categories[k].user_id = user_id}}
    IN  /\ users' = SelectSeq(users, Kept)
        /\ categories' = OnDeleteCascade(categories, "user_id", {user_id})
        /\ budgets' = OnDeleteCascade(OnDeleteCascade(budgets, "user_id", {user_id}),
                                      "category_id", deleted_categories)
        /\ transactions' = OnDeleteCascade(OnDeleteCascade(transactions, "user_id", {user_id}),
                                           "category_id", deleted_categories)
        /\ request' = [op |-> "delete_user", user_id |-> user_id]
        /\ response' = [op |-> "delete_user", message |-> "User deleted."]
        /\ UNCHANGED <<sessions, id_seq, today>>

-----------------------------------------------------------------------------
(* The lifecycle specification: the registered users create categories,    *)
(* budgets and transactions, also on the other user's categories, update   *)
(* budgets and transactions in part, and delete categories and accounts.   *)
(* A request reaches a service function only with the id of a user that    *)
(* get_current_user found.                                                 *)

CurrentUsers == {users[i].id : i \in DOMAIN users}

LifecycleTxCalls ==
    {<<1, Expense(1, 400, WindowStart)>>, <<2, Expense(1, 400, WindowStart)>>,
     <<1, Expense(UnknownCategoryId, 400, WindowStart)>>}

\* Bodies of PUT /budgets/{id} that pass BudgetUpdate and move the budget
\* to another category.
BudgetMoves == {[category_id |-> 9], [category_id |-> UnknownCategoryId]}

\* Bodies of PUT /transactions/{id}: type is required by TransactionUpdate.
TransactionUpdates ==
    {[type |-> "expense", category_id |-> 9],
     [type |-> "expense", category_id |-> UnknownCategoryId]}

InitLifecycle ==
    /\ TwoUsersRegistered
    /\ id_seq = [users |-> 2, categories |-> 16, budgets |-> 0, transactions |-> 0]
    /\ transactions = <<>>
    /\ budgets = <<>>
    /\ today = Date(2025, 3, 10)
    /\ request = NoCall
    /\ response = NoCall

NextLifecycle ==
    \/ \E call \in LifecycleTxCalls :
          /\ call[1] \in CurrentUsers
          /\ id_seq.transactions < MaxLifecycleRows
          /\ create_transaction(call[1], call[2])
    \/ \E u \in CurrentUsers :
          /\ id_seq.budgets < MaxLifecycleRows
          /\ create_budget(u, BudgetBody(500, 80))
    \/ \E u \in CurrentUsers : create_category(u, "Extra")
    \/ \E u \in CurrentUsers, id \in 1..MaxLifecycleRows, body \in BudgetMoves :
          update_budget(u, id, body)
    \/ \E u \in CurrentUsers, id \in 1..MaxLifecycleRows, body \in TransactionUpdates :
          update_transaction(u, id, body)
    \/ \E u \in CurrentUsers, c \in {1, 9, 17} : delete_category(u, c)
    \/ \E u \in CurrentUsers : delete_user(u)

SpecLifecycle == InitLifecycle /\ [][NextLifecycle]_vars

-----------------------------------------------------------------------------
(* The budget dates specification: user 1 creates budgets and updates      *)
(* them with bodies that set one date, or both dates in order.             *)

\* Bodies of PUT /budgets/{id} that pass BudgetUpdate.
BudgetDateUpdates ==
    {[start_date |-> WindowEnd + 1], [end_date |-> WindowStart - 1],
     [start_date |-> WindowStart + 1, end_date |-> WindowEnd - 1],
     [start_date |-> WindowStart + 1], [end_date |-> WindowEnd - 1],
     [amount |-> 440, alert_threshold |-> 50]}

NextBudgetDates ==
    \/ \E body \in BudgetBodies : create_budget(1, body)
    \/ \E u \in Users, id \in 1..MaxBudgets, body \in BudgetDateUpdates :
          update_budget(u, id, body)
    \/ \E u \in Users : get_budgets(u)

SpecBudgetDates == Init /\ [][NextBudgetDates]_vars

-----------------------------------------------------------------------------
(* Claims on the stored rows.                                              *)

\* C19: after any sequence of create_budget and update_budget calls whose
\* bodies pass schema validation, the partial updates that set only
\* start_date or only end_date included, every stored budget has
\* start_date <= end_date.
C19_DatesInOrder ==
    \A i \in DOMAIN budgets : budgets[i].start_date <= budgets[i].end_date


\* C20: deleting a category removes the transactions and budgets of the
\* category, deleting a user removes the user's categories, transactions
\* and budgets; hence after any sequence of create, update and delete
\* operations every stored transaction and budget references a category
\* and a user that still exist.
C20_ReferencesExist ==
    /\ \A i \in DOMAIN budgets : ForeignKeysHold(budgets[i])
    /\ \A i \in DOMAIN transactions : ForeignKeysHold(transactions[i])
    /\ \A i \in DOMAIN categories : UserExists(categories[i].user_id)
    /\ response.op = "delete_category" =>
          \/ request.category_id \in CategoryIds
          \/ /\ \A i \in DOMAIN budgets : budgets[i].category_id # request.category_id
             /\ \A i \in DOMAIN transactions :
                   transactions[i].category_id # request.category_id
    /\ response.op = "delete_user" =>
          /\ \A i \in DOMAIN categories : categories[i].user_id # request.user_id
          /\ \A i \in DOMAIN budgets : budgets[i].user_id # request.user_id
          /\ \A i \in DOMAIN transactions : transactions[i].user_id # request.user_id

\* User 1 deleted category 1 while both users were registered and a budget
\* and a transaction, each the only row of its table, pointed at it: both
\* went with the category.
C20_Witness ==
    /\ response.op = "delete_category"
    /\ request.category_id = 1
    /\ Len(users) = 2
    /\ 1 \notin CategoryIds
    /\ id_seq.budgets = 1 /\ budgets = <<>>
    /\ id_seq.transactions = 1 /\ transactions = <<>>

-----------------------------------------------------------------------------
(* The by-id operations: budget_service.get_budget_by_id and delete_budget, *)
(* transaction_service.get_transaction_by_id and delete_transaction.        *)

\* The where clause with the test of the owner left out.
ByIdOfUserMutAnyUser(row, id, user_id) == row.id = id

\* .where(Budget.id == budget_id, Budget.user_id == user_id), and the same
\* clause on Transaction.
ByIdOfUser(row, id, user_id) == row.id = id /\ row.user_id = user_id

get_budget_by_id(user_id, budget_id) ==
    LET Hit(b) == ByIdOfUser(b, budget_id, user_id)
        hit == SelectSeq(budgets, Hit)
        dict == budget_to_dict(hit[1])
    IN  /\ request' = [op |-> "get_budget_by_id", user_id |-> user_id,
                       budget_id |-> budget_id]
        /\ response' =
              IF hit = <<>>
              THEN [op |-> "get_budget_by_id", raised |-> "none", budget |-> None]
              ELSE IF dict.status = "ZeroDivisionError"
              THEN [op |-> "get_budget_by_id", raised |-> "ZeroDivisionError"]
              ELSE [op |-> "get_budget_by_id", raised |-> "none", budget |-> Some(dict)]
        /\ UNCHANGED <<sessions, users, categories, budgets, transactions, id_seq, today>>

\* DELETE FROM budgets WHERE ...; rowcount is the number of rows deleted.
delete_budget(user_id, budget_id) ==
    LET Hit(b) == ByIdOfUser(b, budget_id, user_id)
        Kept(b) == ~Hit(b)
        rowcount == Len(SelectSeq(budgets, Hit))
    IN  /\ budgets' = SelectSeq(budgets, Kept)
        /\ request' = [op |-> "delete_budget", user_id |-> user_id,
                       budget_id |-> budget_id]
        /\ response' = [op |-> "delete_budget", raised |-> "none",
                        success |-> rowcount # 0]
        /\ UNCHANGED <<sessions, users, categories, transactions, id_seq, today>>

\* select(Transaction, Category.name).join(Category, ...).where(...).first()
get_transaction_by_id(user_id, transaction_id) ==
    LET Hit(t) == /\ ByIdOfUser(t, transaction_id, user_id)
                  /\ CategoryById(t.category_id) # None
        hit == SelectSeq(transactions, Hit)
    IN  /\ request' = [op |-> "get_transaction_by_id", user_id |-> user_id,
                       transaction_id |-> transaction_id]
        /\ response' =
              IF hit = <<>>
              THEN [op |-> "get_transaction_by_id", raised |-> "none",
                    transaction |-> None]
              ELSE [op |-> "get_transaction_by_id", raised |-> "none",
                    transaction |-> Some([id |-> hit[1].id,
                                          userId |-> hit[1].user_id,
                                          category |-> CategoryById(hit[1].category_id)[1].name])]
        /\ UNCHANGED <<sessions, users, categories, budgets, transactions, id_seq, today>>

delete_transaction(user_id, transaction_id) ==
    LET Hit(t) == ByIdOfUser(t, transaction_id, user_id)
        Kept(t) == ~Hit(t)
        rowcount == Len(SelectSeq(transactions, Hit))
    IN  /\ transactions' = SelectSeq(transactions, Kept)
        /\ request' = [op |-> "delete_transaction", user_id |-> user_id,
                       transaction_id |-> transaction_id]
        /\ response' = [op |-> "delete_transaction", raised |-> "none",
                        success |-> rowcount # 0]
        /\ UNCHANGED <<sessions, users, categories, budgets, id_seq, today>>

-----------------------------------------------------------------------------
(* The ownership specification: each user creates budgets and transactions *)
(* on a category of its own, and each user reads, updates and deletes by   *)
(* id every id the tables have handed out, its own and the other user's.   *)

OwnCategory(user_id) == IF user_id = 1 THEN 1 ELSE 9

NextOwnership ==
    \/ \E u \in Users :
          create_budget(u, [BudgetBody(500, 80) EXCEPT !.category_id = OwnCategory(u)])
    \/ \E u \in Users :
          /\ id_seq.transactions < MaxLifecycleRows
          /\ create_transaction(u, Expense(OwnCategory(u), 400, WindowStart))
    \/ \E u \in Users, id \in 1..MaxBudgets : get_budget_by_id(u, id)
    \/ \E u \in Users, id \in 1..MaxBudgets : update_budget(u, id, [amount |-> 440])
    \/ \E u \in Users, id \in 1..MaxBudgets : delete_budget(u, id)
    \/ \E u \in Users, id \in 1..MaxLifecycleRows : get_transaction_by_id(u, id)
    \/ \E u \in Users, id \in 1..MaxLifecycleRows :
          update_transaction(u, id, [type |-> "expense", amount |-> 50])
    \/ \E u \in Users, id \in 1..MaxLifecycleRows : delete_transaction(u, id)

SpecOwnership == Init /\ [][NextOwnership]_vars

-----------------------------------------------------------------------------
(* Claims on the by-id operations.                                         *)

BudgetByIdOps == {"get_budget_by_id", "update_budget", "delete_budget"}

TransactionByIdOps == {"get_transaction_by_id", "update_transaction", "delete_transaction"}

\* The answer `answer` of the call `call` says that no row was found: None
\* from a read or an update, success False from a delete.
NotFound(call, answer) ==
    /\ answer.raised = "none"
    /\ call.op \in {"get_budget_by_id", "update_budget"} => answer.budget = None
    /\ call.op \in {"get_transaction_by_id", "update_transaction"} =>
          answer.transaction = None
    /\ call.op \in {"delete_budget", "delete_transaction"} => ~answer.success

\* The rows of a table without the row of the id.
WithoutId(rows, id) ==
    LET Kept(row) == row.id # id
    IN  SelectSeq(rows, Kept)

\* C21: for any two distinct users A and B and any budget or transaction
\* owned by B, the by-id read, update and delete invoked with A's user id
\* answer not-found (None, or success False) and leave every stored budget
\* and transaction as it was; a delete invoked by the owner removes exactly
\* that one row and reports success.
C21_OnlyOwnerReachesRow ==
    [][ /\ request'.op \in BudgetByIdOps =>
              LET id == request'.budget_id
                  ofOther == \E i \in DOMAIN budgets :
                                /\ budgets[i].id = id
                                /\ budgets[i].user_id # request'.user_id
                  ofCaller == \E i \in DOMAIN budgets :
                                 /\ budgets[i].id = id
                                 /\ budgets[i].user_id = request'.user_id
              IN  /\ ofOther => /\ NotFound(request', response')
                                /\ budgets' = budgets
                                /\ transactions' = transactions
                  /\ (ofCaller /\ request'.op = "delete_budget") =>
                        /\ response'.success
                        /\ budgets' = WithoutId(budgets, id)
                        /\ Len(budgets') = Len(budgets) - 1
                        /\ transactions' = transactions
        /\ request'.op \in TransactionByIdOps =>
              LET id == request'.transaction_id
                  ofOther == \E i \in DOMAIN transactions :
                                /\ transactions[i].id = id
                                /\ transactions[i].user_id # request'.user_id
                  ofCaller == \E i \in DOMAIN transactions :
                                 /\ transactions[i].id = id
                                 /\ transactions[i].user_id = request'.user_id
              IN  /\ ofOther => /\ NotFound(request', response')
                                /\ budgets' = budgets
                                /\ transactions' = transactions
                  /\ (ofCaller /\ request'.op = "delete_transaction") =>
                        /\ response'.success
                        /\ transactions' = WithoutId(transactions, id)
                        /\ Len(transactions') = Len(transactions) - 1
                        /\ budgets' = budgets
      ]_vars

\* User 1 asked to delete the budget with id 2, which user 2 owns; it is
\* still stored next to user 1's own budget and the answer is success False.
C21_Witness ==
    /\ response.op = "delete_budget"
    /\ request.user_id = 1
    /\ request.budget_id = 2
    /\ ~response.success
    /\ \E i \in DOMAIN budgets : budgets[i].id = 2 /\ budgets[i].user_id = 2
    /\ \E i \in DOMAIN budgets : budgets[i].id = 1 /\ budgets[i].user_id = 1

-----------------------------------------------------------------------------
(* The threshold specification: on the last day of the budget window user  *)
(* 1 books expenses with a negative amount on category 1, creates budgets  *)
(* with alert thresholds from 0 to 100, and reads the dashboard.           *)

ThresholdTxBodies == {Expense(1, -300, WindowStart), Expense(1, -150, WindowStart)}

ThresholdBodies == {BudgetBody(500, t) : t \in {0, 50, 80, 90, 100}}

NextThreshold ==
    \/ \E body \in ThresholdTxBodies : create_transaction(1, body)
    \/ \E body \in ThresholdBodies : create_budget(1, body)
    \/ metrics_get_budget_overview(1)

SpecThreshold == InitDashboard /\ [][NextThreshold]_vars

\* C22: the dashboard budget overview (metrics_service.get_budget_overview)
\* derives each budget's status with the budget's own alert_threshold:
\* "over" iff spent > budget amount, else "warning" iff the percentage used
\* >= budget.alert_threshold, else "good", for every threshold in 0..100 and
\* not only for 80.
C22_StatusByOwnThreshold ==
    (response.op = "metrics.get_budget_overview" /\ response.raised = "none") =>
        \A i \in DOMAIN response.data :
            LET b == CHOOSE b \in {budgets[k] : k \in DOMAIN budgets} :
                        b.id = response.evaluated[i]
                d == response.data[i]
            IN  d.status = IF d.spent > b.amount THEN "over"
                           ELSE IF d.spent * 100 >= b.alert_threshold * b.amount
                                THEN "warning"
                           ELSE "good"

-----------------------------------------------------------------------------
(* ai_service.generate_spending_predictions                                *)
(*                                                                         *)
(* category_data, a defaultdict(list), is the sequence of its items in     *)
(* insertion order.  With n amounts of sum S and sum of squares Q the mean *)
(* is S / n and std_dev / avg is sqrt(n * Q - S * S) / S; round(x, 2) is   *)
(* a whole number of hundredths.                                           *)

\* round(x, 2) of the float x = num / den >= 0, as a quotient of
\* hundredths; a tie goes to the even digit.
Round2Of(x) ==
    LET n == x.num * 100
        q == n \div x.den
        r == n % x.den
        hundredths == IF 2 * r > x.den THEN q + 1
                      ELSE IF 2 * r < x.den THEN q
                      ELSE IF q % 2 = 0 THEN q ELSE q + 1
    IN  Quotient(hundredths, 100)

\* category_data[tx['category']].append(abs(tx['amount']))
AppendAmount(items, category, amount) ==
    IF \E i \in DOMAIN items : items[i].category = category
    THEN [i \in DOMAIN items |->
            IF items[i].category = category
            THEN [items[i] EXCEPT !.amounts = Append(@, amount)]
            ELSE items[i]]
    ELSE Append(items, [category |-> category, amounts |-> <<amount>>])

\* for tx in transactions: if tx['amount'] < 0: ...
RECURSIVE CategoryData(_, _)
CategoryData(category_data, txs) ==
    IF txs = <<>> THEN category_data
    ELSE CategoryData(
            IF Head(txs).amount < 0
            THEN AppendAmount(category_data, Head(txs).category, Abs(Head(txs).amount))
            ELSE category_data,
            Tail(txs))

\* The largest ratio std_dev / avg of the lists of the model, in hundredths.
MaxRatioHundredths == 300

\* round(100 * sqrt(num) / den): the h with (2h - 1) / 200 <= sqrt(num) / den
\* < (2h + 1) / 200.
RatioHundredths(num, den) ==
    CHOOSE h \in 0..MaxRatioHundredths :
        /\ h > 0 => (2 * h - 1) * (2 * h - 1) * den * den <= 40000 * num
        /\ 40000 * num < (2 * h + 1) * (2 * h + 1) * den * den

\* round(min(0.9, 1 - (std_dev / avg) if avg > 0 else 0.5), 2): the smaller
\* of 0.9 and 1 - std_dev / avg, with nothing that holds it above 0.
Confidence(amounts) ==
    LET n == Len(amounts)
        S == SumSeq(amounts)
        Q == SumSeq([i \in DOMAIN amounts |-> amounts[i] * amounts[i]])
    IN  IF S > 0
        THEN Quotient(Min(90, 100 - RatioHundredths(n * Q - S * S, S)), 100)
        ELSE Quotient(50, 100)

\* sum(amounts[-4:]) / min(4, len(amounts))
LastFour(amounts) ==
    IF Len(amounts) <= 4 THEN amounts
    ELSE SubSeq(amounts, Len(amounts) - 3, Len(amounts))

PredictionOf(item, timeframe) ==
    LET amounts == item.amounts
        confidence == Confidence(amounts)
    IN  [type       |-> "spending",
         current    |-> Round2Of(Quotient(SumSeq(LastFour(amounts)), Min(4, Len(amounts)))),
         predicted  |-> Round2Of(Quotient(SumSeq(amounts), Len(amounts))),
         confidence |-> confidence,
         timeframe  |-> timeframe,
         factors    |-> <<item.category,
                          IF confidence.num > 70 THEN "Baja" ELSE "Alta">>]

generate_spending_predictions(txs, timeframe) ==
    LET Enough(item) == Len(item.amounts) >= 3
        items == SelectSeq(CategoryData(<<>>, txs), Enough)
    IN  IF txs = <<>> THEN <<>>
        ELSE [i \in DOMAIN items |-> PredictionOf(items[i], timeframe)]

call_generate_spending_predictions ==
    /\ request.op = "generate_spending_predictions"
    /\ response = NoCall
    /\ response' = [op |-> "generate_spending_predictions",
                    predictions |-> generate_spending_predictions(request.transactions,
                                                                  "1month")]
    /\ UNCHANGED <<sessions, users, categories, budgets, transactions, id_seq, today, request>>

-----------------------------------------------------------------------------
(* ai_service.analyze_spending_trends                                      *)
(*                                                                         *)
(* weekly_spending, a defaultdict(float), is the sequence of its items in  *)
(* insertion order.  The tests on len(weekly_spending) and every return    *)
(* that follows them stand inside the for loop, after the `if` on the      *)
(* amount: they are run at the end of the first iteration.                 *)

\* tx_date.isocalendar()[1]: the week of the Thursday of the date's week
\* (day 1 = 2024-01-01 is a Monday).
ISOWeek(n) ==
    LET thursday == n - ((n - 1) % 7) + 3
    IN  (thursday - DaysBeforeYear(YearOf(thursday)) - 1) \div 7 + 1

\* weekly_spending[week] += abs(tx['amount'])
AddWeek(items, week, amount) ==
    IF \E i \in DOMAIN items : items[i].week = week
    THEN [i \in DOMAIN items |->
            IF items[i].week = week THEN [items[i] EXCEPT !.total = @ + amount]
            ELSE items[i]]
    ELSE Append(items, [week |-> week, total |-> amount])

\* sorted(weekly_spending.items()): by week; the weeks are distinct.
RECURSIVE SortedByWeek(_)
SortedByWeek(items) ==
    IF items = <<>> THEN <<>>
    ELSE LET first == CHOOSE i \in DOMAIN items :
                          \A j \in DOMAIN items : items[i].week <= items[j].week
             Rest(item) == item.week # items[first].week
         IN  <<items[first]>> \o SortedByWeek(SelectSeq(items, Rest))

\* The returns of lines 487-508 on two or more weeks: recent_avg is half the
\* sum of the last two weeks, older_avg the sum of the weeks before them
\* over max(len(weeks) - 2, 1); the percentage divides by older_avg.
TrendOfWeeks(weekly_spending) ==
    LET weeks == SortedByWeek(weekly_spending)
        n == Len(weeks)
        recent == weeks[n - 1].total + weeks[n].total
        older == SumSeq([i \in 1..(n - 2) |-> weeks[i].total])
        k == Max(n - 2, 1)
    IN  IF recent * k * 10 > older * 2 * 12
        THEN IF older = 0 THEN [raised |-> "ZeroDivisionError"]
             ELSE [raised |-> "none",
                   result |-> Some([trend |-> "increasing",
                                    percentage |-> Quotient((recent * k - 2 * older) * 100,
                                                            2 * older)])]
        ELSE IF recent * k * 10 < older * 2 * 8
        THEN [raised |-> "none",
              result |-> Some([trend |-> "decreasing",
                               percentage |-> Quotient((2 * older - recent * k) * 100,
                                                       2 * older)])]
        ELSE [raised |-> "none",
              result |-> Some([trend |-> "stable", percentage |-> Quotient(0, 1)])]

\* The body of the for loop for the transaction tx; it returns in every
\* branch.
TrendAfter(weekly_spending, tx) ==
    LET weekly == IF tx.amount < 0
                  THEN AddWeek(weekly_spending, ISOWeek(tx.date), Abs(tx.amount))
                  ELSE weekly_spending
    IN  IF Len(weekly) < 2
        THEN [raised |-> "none",
              result |-> Some([trend |-> "neutral", message |-> "Necesitas más historial"])]
        ELSE TrendOfWeeks(weekly)

analyze_spending_trends(txs) ==
    IF txs = <<>>
    THEN [raised |-> "none",
          result |-> Some([trend |-> "neutral", message |-> "No hay suficientes datos"])]
    ELSE TrendAfter(<<>>, Head(txs))

call_analyze_spending_trends ==
    /\ request.op = "analyze_spending_trends"
    /\ response = NoCall
    /\ response' = [op |-> "analyze_spending_trends"] @@
                   analyze_spending_trends(request.transactions)
    /\ UNCHANGED <<users, categories, budgets, transactions, id_seq, sessions, today,
                   request>>

-----------------------------------------------------------------------------
(* ai_service.generate_risk_analysis                                       *)
(*                                                                         *)
(* The scores are kept as exact quotients; 100 - income_volatility * 100   *)
(* is 70.                                                                  *)

\* max(category_expenses.values())
RECURSIVE MaxTotal(_)
MaxTotal(items) ==
    IF Len(items) = 1 THEN items[1].total
    ELSE Max(items[1].total, MaxTotal(Tail(items)))

\* min(100, x) of a quotient with a positive denominator.
Min100(x) == IF x.num > 100 * x.den THEN Quotient(100, 1) ELSE x

\* "Muy Bajo" for a score >= 80, "Bajo" >= 60, "Medio" >= 40, "Alto" >= 20,
\* else "Muy Alto".
RiskLevel(overall_score) ==
    IF overall_score.num >= 80 * overall_score.den THEN "Muy Bajo"
    ELSE IF overall_score.num >= 60 * overall_score.den THEN "Bajo"
    ELSE IF overall_score.num >= 40 * overall_score.den THEN "Medio"
    ELSE IF overall_score.num >= 20 * overall_score.den THEN "Alto"
    ELSE "Muy Alto"

generate_risk_analysis(txs, budget_dicts, financial_summary) ==
    LET total_expenses == financial_summary.monthly_expenses
        balance == financial_summary.total_balance
        category_expenses == CategoryExpenses(<<>>, txs)
        expense_concentration ==
            IF category_expenses # <<>> /\ total_expenses > 0
            THEN Quotient(MaxTotal(category_expenses) * 100, total_expenses)
            ELSE Quotient(0, 1)
        Over(b) == b.status = "over"
        over_budget_count == Len(SelectSeq(budget_dicts, Over))
        budget_compliance == Max(0, 100 - over_budget_count * 20)
        emergency_fund_target == total_expenses * 3
        emergency_fund_score ==
            IF emergency_fund_target > 0
            THEN Min100(Quotient(balance * 100, emergency_fund_target))
            ELSE Quotient(0, 1)
        concentration == Min100(expense_concentration)
        den == concentration.den * emergency_fund_score.den
        overall_score ==
            Quotient((70 + 100 + budget_compliance) * den
                         - concentration.num * emergency_fund_score.den
                         + emergency_fund_score.num * concentration.den,
                     4 * den)
    IN  [overallScore |-> Round1(overall_score),
         level        |-> RiskLevel(overall_score),
         factors      |-> [incomeVolatility     |-> Round1(Quotient(30, 1)),
                           expenseConcentration |-> Round1(expense_concentration),
                           budgetCompliance     |-> Round1(Quotient(budget_compliance, 1)),
                           emergencyFund        |-> Round1(emergency_fund_score)]]

call_generate_risk_analysis ==
    /\ request.op = "generate_risk_analysis"
    /\ response = NoCall
    /\ response' = [op |-> "generate_risk_analysis",
                    analysis |-> generate_risk_analysis(request.transactions,
                                                        request.budgets,
                                                        request.financial_summary)]
    /\ UNCHANGED <<users, categories, budgets, transactions, id_seq, sessions, today,
                   request>>

-----------------------------------------------------------------------------
(* The analytics specification: the transactions get_ai_insights_data      *)
(* hands over are drawn, one of the analyses of ai_service is applied.     *)

MaxListLen == 4

SeqsUpTo(S, n) == UNION {[1..k -> S] : k \in 0..n}

\* Expenses of 1 and of 100 and an income of 100, in two categories.
PredictionLists ==
    SeqsUpTo({[amount |-> a, category |-> c] :
                 a \in {-1, -100, 100}, c \in {"Ocio", "Viajes"}}, MaxListLen)

\* Expenses of 100 and of 300 and an income of 100, on the Mondays of
\* three weeks of March 2025.
TrendLists ==
    SeqsUpTo({[amount |-> -100, date |-> d] : d \in {Date(2025, 3, 3), Date(2025, 3, 10),
                                                    Date(2025, 3, 17)}}
             \cup {[amount |-> -300, date |-> d] : d \in {Date(2025, 3, 3), Date(2025, 3, 17)}}
             \cup {[amount |-> 100, date |-> Date(2025, 3, 10)]},
             MaxListLen)

\* The arguments of generate_risk_analysis: a balance below zero, zero and
\* above the emergency target; no expenses of the month or some; expenses
\* in one category or in two; no budget over, one, or six.
RiskSummaries ==
    {[total_balance |-> b, monthly_income |-> 100, monthly_expenses |-> e] :
        b \in {-300, 0, 60, 900}, e \in {0, 50, 200}}

RiskTransactions ==
    {<< [amount |-> -100, category |-> "Ocio"] >>,
     << [amount |-> -100, category |-> "Ocio"], [amount |-> -100, category |-> "Viajes"] >>,
     << [amount |-> 500, category |-> "Trabajo"] >>}

RiskBudgets ==
    {[i \in 1..n |-> [category |-> "Ocio", status |-> "over"]] : n \in {0, 1, 6}}
    \cup {<< [category |-> "Ocio", status |-> "good"] >>}

AnalyticsCalls ==
    {[op |-> "generate_spending_predictions", transactions |-> t] : t \in PredictionLists}
    \cup {[op |-> "analyze_spending_trends", transactions |-> t] : t \in TrendLists}
    \cup {[op |-> "generate_risk_analysis", transactions |-> t, budgets |-> b,
           financial_summary |-> f] :
              t \in RiskTransactions, b \in RiskBudgets, f \in RiskSummaries}

InitAnalytics ==
    /\ TwoUsersRegistered
    /\ id_seq = [users |-> 2, categories |-> 16, budgets |-> 0, transactions |-> 0]
    /\ transactions = <<>>
    /\ budgets = <<>>
    /\ today = Date(2025, 3, 10)
    /\ request \in AnalyticsCalls
    /\ response = NoCall

NextAnalytics ==
    \/ call_generate_spending_predictions
    \/ call_analyze_spending_trends
    \/ call_generate_risk_analysis

SpecAnalytics == InitAnalytics /\ [][NextAnalytics]_vars

-----------------------------------------------------------------------------
(* Claims on the analyses.                                                 *)

\* The absolute amounts of the expenses of a category, in list order.
ExpensesOf(txs, category) ==
    LET Test(tx) == tx.amount < 0 /\ tx.category = category
        rows == SelectSeq(txs, Test)
    IN  [i \in DOMAIN rows |-> Abs(rows[i].amount)]

\* C23: generate_spending_predictions returns one prediction for exactly
\* those categories that have at least 3 expense observations, with
\* predicted = the mean of the absolute expense amounts and confidence =
\* max(0, min(0.9, 1 - stdev / mean)); in particular the confidence is
\* within [0, 0.9], also when the standard deviation exceeds the mean.
C23_ConfidenceWithinRange ==
    response.op = "generate_spending_predictions" =>
        LET txs == request.transactions
            predictions == response.predictions
            predicted == {predictions[i].factors[1] : i \in DOMAIN predictions}
            observed == {txs[i].category : i \in DOMAIN txs}
        IN  /\ predicted = {c \in observed : Len(ExpensesOf(txs, c)) >= 3}
            /\ Cardinality(predicted) = Len(predictions)
            /\ \A i \in DOMAIN predictions :
                  LET amounts == ExpensesOf(txs, predictions[i].factors[1])
                  IN  /\ predictions[i].predicted =
                            Round2Of(Quotient(SumSeq(amounts), Len(amounts)))
                      /\ predictions[i].confidence.num >= 0
                      /\ predictions[i].confidence.num <= 90

-----------------------------------------------------------------------------
(* budget_metrics_service.get_category_spending_breakdown                  *)

\* date(today.year, today.month + 1, 1), or date(today.year, 12, 31) in
\* December.
DefaultPeriodEnd(n) ==
    IF MonthOf(n) = 12 THEN Date(YearOf(n), 12, 31)
    ELSE Date(YearOf(n), MonthOf(n) + 1, 1)

\* The joined rows of one category: Transaction.category_id == Category.id,
\* Transaction.user_id == user_id, type == "expense", the date in the period.
BreakdownRows(user_id, category, start_date, end_date) ==
    LET Test(t) == /\ t.category_id = category.id
                   /\ t.user_id = user_id
                   /\ t.type = "expense"
                   /\ t.transaction_date >= start_date
                   /\ t.transaction_date <= end_date
    IN  SelectSeq(transactions, Test)

\* group_by(Category.id, Category.name): one row for each category that has
\* joined rows, with the signed sum and the count of them.
BreakdownGroups(user_id, start_date, end_date) ==
    LET Joined(c) == BreakdownRows(user_id, c, start_date, end_date) # <<>>
        grouped == SelectSeq(categories, Joined)
    IN  [i \in DOMAIN grouped |->
            LET rows == BreakdownRows(user_id, grouped[i], start_date, end_date)
            IN  [id                |-> grouped[i].id,
                 name              |-> grouped[i].name,
                 total_spent       |-> SumSeq(Amounts(rows)),
                 transaction_count |-> Len(rows)]]

\* order_by(func.sum(Transaction.amount).desc()): the sum is the only sort
\* key, so rows of equal sum come in any order.
OrderedBySumDesc(rows) ==
    \A i \in DOMAIN rows : \A j \in DOMAIN rows :
        i < j => rows[i].total_spent >= rows[j].total_spent

\* The budgets of the user on the category whose window meets the period.
BudgetsOverlapping(user_id, category_id, start_date, end_date) ==
    LET Test(b) == /\ b.user_id = user_id
                   /\ b.category_id = category_id
                   /\ b.start_date <= end_date
                   /\ b.end_date >= start_date
    IN  SelectSeq(budgets, Test)

\* One dict of the breakdown; scalar_one_or_none() has given the budget.
BreakdownOf(row, found) ==
    [categoryId         |-> row.id,
     categoryName       |-> row.name,
     totalSpent         |-> row.total_spent,
     transactionCount   |-> row.transaction_count,
     budgetAmount       |-> IF found # <<>> THEN Some(found[1].amount) ELSE None,
     percentageOfBudget |-> IF found # <<>> /\ found[1].amount > 0
                            THEN Some(Quotient(row.total_spent * 100, found[1].amount))
                            ELSE None]

\* `period` is None (the route passes no dates: the current month up to the
\* first day of the next) or Some(<<start_date, end_date>>).
\* scalar_one_or_none() raises MultipleResultsFound on more than one row.
get_category_spending_breakdown(user_id, period) ==
    LET start_date == IF period = None THEN ReplaceDay1(today) ELSE period[1][1]
        end_date == IF period = None THEN DefaultPeriodEnd(today) ELSE period[1][2]
    IN  \E rows \in Orderings(BreakdownGroups(user_id, start_date, end_date)) :
            LET Found(row) == BudgetsOverlapping(user_id, row.id, start_date, end_date)
                raised == \E i \in DOMAIN rows : Len(Found(rows[i])) > 1
            IN  /\ OrderedBySumDesc(rows)
                /\ request' = [op |-> "get_category_spending_breakdown",
                               user_id |-> user_id, start_date |-> start_date,
                               end_date |-> end_date]
                /\ response' =
                      IF raised
                      THEN [op |-> "get_category_spending_breakdown",
                            raised |-> "MultipleResultsFound"]
                      ELSE [op |-> "get_category_spending_breakdown",
                            raised |-> "none",
                            breakdown |-> [i \in DOMAIN rows |->
                                              BreakdownOf(rows[i], Found(rows[i]))]]
                /\ UNCHANGED <<sessions, users, categories, budgets, transactions, id_seq, today>>

-----------------------------------------------------------------------------
(* The breakdown specification: user 1 books expenses of March 2025 on two *)
(* categories, creates budgets on the first of them, and reads the         *)
(* breakdown of the current month and of the budget window.                *)

BreakdownTxBodies ==
    {Expense(1, 400, WindowStart), Expense(2, 400, WindowStart),
     Expense(2, 100, WindowStart)}

BreakdownPeriods == {None, Some(<<WindowStart, WindowEnd>>)}

NextBreakdown ==
    \/ \E body \in BreakdownTxBodies : create_transaction(1, body)
    \/ create_budget(1, BudgetBody(500, 80))
    \/ \E u \in Users, period \in BreakdownPeriods :
          get_category_spending_breakdown(u, period)

SpecBreakdown == Init /\ [][NextBreakdown]_vars

-----------------------------------------------------------------------------
(* Claims on the breakdown.                                                *)

\* The names of the default categories in ascending order.
NamesAscending ==
    <<"Alimentación", "Facturas", "Ocio", "Otros", "Suscripciones", "Trabajo",
      "Transporte", "Viajes">>

NameRank(name) == CHOOSE k \in DOMAIN NamesAscending : NamesAscending[k] = name

BreakdownAnswered ==
    response.op = "get_category_spending_breakdown" /\ response.raised = "none"

\* C24: the category breakdown returned by get_category_spending_breakdown
\* is sorted by spent amount descending, with ties broken by category name
\* ascending, so the order is fully determined by the stored rows.
C24_TiesByName ==
    BreakdownAnswered =>
        \A i \in DOMAIN response.breakdown : \A j \in DOMAIN response.breakdown :
            i < j =>
                LET a == response.breakdown[i]
                    b == response.breakdown[j]
                IN  \/ a.totalSpent > b.totalSpent
                    \/ /\ a.totalSpent = b.totalSpent
                       /\ NameRank(a.categoryName) < NameRank(b.categoryName)

\* C27: get_category_spending_breakdown (and therefore get_budget_analytics)
\* returns a breakdown without raising for every reachable stored state,
\* including when a user has two or more budgets on the same category whose
\* date windows both overlap the queried period, a state that create_budget
\* allows.
C27_BreakdownNeverRaises ==
    response.op = "get_category_spending_breakdown" => response.raised = "none"

-----------------------------------------------------------------------------
(* budget_metrics_service.get_budget_overview: the totals over the budgets *)
(* of a user.                                                              *)

\* spent_result.scalar() or 0.0 for one budget: the signed sum of the rows.
SignedSpent(user_id, budget) ==
    OrZero(SqlSum(Amounts(
        ExpenseRows(user_id, budget.category_id, budget.start_date, budget.end_date))))

budget_metrics_get_budget_overview(user_id) ==
    LET rows == BudgetsOf(user_id)
        total_budget == SumSeq([i \in DOMAIN rows |-> rows[i].amount])
        total_spent == SumSeq([i \in DOMAIN rows |-> SignedSpent(user_id, rows[i])])
        exceeded == {i \in DOMAIN rows : SignedSpent(user_id, rows[i]) > rows[i].amount}
    IN  /\ request' = [op |-> "budget_metrics.get_budget_overview", user_id |-> user_id]
        /\ response' = [op              |-> "budget_metrics.get_budget_overview",
                        totalBudget     |-> total_budget,
                        totalSpent      |-> total_spent,
                        available       |-> total_budget - total_spent,
                        percentageUsed  |-> IF total_budget > 0
                                            THEN Quotient(total_spent * 100, total_budget)
                                            ELSE Quotient(0, 1),
                        budgetsExceeded |-> Cardinality(exceeded),
                        totalBudgets    |-> Len(rows)]
        /\ UNCHANGED <<sessions, users, categories, budgets, transactions, id_seq, today>>

-----------------------------------------------------------------------------
(* The views specification: the budget specification, with the overview    *)
(* read next to the listing and the alerts.                                *)

NextViews ==
    \/ \E call \in BudgetTxCalls : create_transaction(call[1], call[2])
    \/ \E body \in BudgetBodies : create_budget(1, body)
    \/ \E u \in Users : get_budget_alerts(u)
    \/ \E u \in Users : budget_metrics_get_budget_overview(u)

SpecViews == Init /\ [][NextViews]_vars

\* The status the listing (get_budgets) reports for a stored budget.
ListedStatus(b) == budget_to_dict(b).status

\* C25: for any stored budget and any transaction set, the alert view and
\* the listing view agree: get_budget_alerts emits an "exceeded" alert for
\* the budget iff get_budgets reports its status as "over", and a "warning"
\* alert iff get_budgets reports "warning"; likewise get_budget_overview's
\* budgetsExceeded equals the number of budgets the listing reports as
\* "over".
C25_ViewsAgree ==
    /\ response.op = "get_budget_alerts" =>
          \A i \in DOMAIN budgets :
              LET b == budgets[i]
                  Alerted(type) == \E k \in DOMAIN response.alerts :
                                      /\ response.alerts[k].budgetId = b.id
                                      /\ response.alerts[k].type = type
              IN  b.user_id = request.user_id =>
                      /\ Alerted("exceeded") <=> ListedStatus(b) = "over"
                      /\ Alerted("warning") <=> ListedStatus(b) = "warning"
    /\ response.op = "budget_metrics.get_budget_overview" =>
          response.budgetsExceeded =
              Cardinality({i \in DOMAIN budgets :
                              /\ budgets[i].user_id = request.user_id
                              /\ ListedStatus(budgets[i]) = "over"})

-----------------------------------------------------------------------------
(* Claims on the owner of a referenced category.                           *)

\* The category of the id is stored and belongs to the user.
OwnsCategory(user_id, category_id) ==
    /\ CategoryById(category_id) # None
    /\ CategoryById(category_id)[1].user_id = user_id

\* C26: after any sequence of create and update operations by any users,
\* every stored budget and every stored transaction references a category
\* owned by the same user as the row itself; consequently a budget or
\* transaction response shown to a user never contains the name of another
\* user's category.
C26_CategoryOfSameUser ==
    /\ \A i \in DOMAIN budgets : OwnsCategory(budgets[i].user_id, budgets[i].category_id)
    /\ \A i \in DOMAIN transactions :
          OwnsCategory(transactions[i].user_id, transactions[i].category_id)
    /\ (response.op \in {"create_budget", "create_transaction"} /\ response.raised = "none") =>
          OwnsCategory(request.user_id, request.category_id)

-----------------------------------------------------------------------------
(* user_service.register_user, one call in each database session.          *)
(*                                                                         *)
(* A call gives up control at its awaits, so the calls under way take      *)
(* turns between the select of the username (line 36), the flush that      *)
(* inserts the user row (line 57) and the commit that inserts the default  *)
(* categories and ends the transaction (line 71).  A session reads what is *)
(* committed; the row it has flushed is visible to no other session, but   *)
(* the unique indexes of users.username and users.email make an insert of  *)
(* the same username or email wait until that session's transaction ends.  *)
(* A session is [pc, username, email, user_id, result].                    *)

\* The unique indexes left out: no insert is refused.
UniqueViolationMutNone(row, rows) == FALSE

\* unique=True on User.username and User.email: a committed row has the
\* username or the email of the row to insert.
UniqueViolation(row, rows) ==
    \E i \in DOMAIN rows : rows[i].username = row.username \/ rows[i].email = row.email

\* The insert of session s has to wait: another session has flushed, and
\* not yet committed, a row with the same username or email.
InsertWaits(s) ==
    \E t \in DOMAIN sessions :
        /\ t # s
        /\ sessions[t].pc = "flushed"
        /\ \/ sessions[t].username = sessions[s].username
           \/ sessions[t].email = sessions[s].email

\* select(User).filter(User.username == username); `if existing_user`
\* raises the 400 outside the try.
register_user_select(s) ==
    /\ sessions[s].pc = "start"
    /\ sessions' = [sessions EXCEPT ![s] =
                       IF \E i \in DOMAIN users : users[i].username = sessions[s].username
                       THEN [@ EXCEPT !.pc = "done", !.result = "400"]
                       ELSE [@ EXCEPT !.pc = "selected"]]
    /\ UNCHANGED <<users, categories, budgets, transactions, id_seq, today, request,
                   response>>

\* db.add(new_user); await db.flush(): the id sequence moves on, then the
\* insert is refused (except: rollback, 500) or stays pending.
register_user_flush(s) ==
    /\ sessions[s].pc = "selected"
    /\ ~InsertWaits(s)
    /\ id_seq' = [id_seq EXCEPT !.users = @ + 1]
    /\ sessions' = [sessions EXCEPT ![s] =
                       IF UniqueViolation(sessions[s], users)
                       THEN [@ EXCEPT !.pc = "done", !.result = "500"]
                       ELSE [@ EXCEPT !.pc = "flushed", !.user_id = id_seq.users + 1]]
    /\ UNCHANGED <<users, categories, budgets, transactions, today, request, response>>

\* The loop over DEFAULT_CATEGORIES and await db.commit(): the categories
\* are inserted and the transaction is committed, the user row with them.
register_user_commit(s) ==
    /\ sessions[s].pc = "flushed"
    /\ users' = Append(users, [id |-> sessions[s].user_id,
                               username |-> sessions[s].username,
                               email |-> sessions[s].email])
    /\ categories' = categories \o
                     DefaultCategoriesOf(sessions[s].user_id, id_seq.categories + 1)
    /\ id_seq' = [id_seq EXCEPT !.categories = @ + Len(DEFAULT_CATEGORIES)]
    /\ sessions' = [sessions EXCEPT ![s] = [@ EXCEPT !.pc = "done", !.result = "ok"]]
    /\ UNCHANGED <<budgets, transactions, today, request, response>>

-----------------------------------------------------------------------------
(* The registration specification: "ana" has registered; the calls under   *)
(* way ask for her username, for a new username, twice for the same new    *)
(* username, or for a new username with the email of another call.         *)

MaxSessions == 2

RegisterBodies ==
    {[username |-> "ana", email |-> "ana2@x"],
     [username |-> "cleo", email |-> "cleo@x"],
     [username |-> "cleo", email |-> "cleo2@x"],
     [username |-> "dan", email |-> "cleo@x"]}

InitRegister ==
    /\ users = <<[id |-> 1, username |-> "ana", email |-> "ana@x"]>>
    /\ categories = DefaultCategoriesOf(1, 1)
    /\ id_seq = [users |-> 1, categories |-> 8, budgets |-> 0, transactions |-> 0]
    /\ budgets = <<>>
    /\ transactions = <<>>
    /\ sessions \in [1..MaxSessions ->
                        {[pc |-> "start", username |-> b.username, email |-> b.email,
                          user_id |-> 0, result |-> "pending"] : b \in RegisterBodies}]
    /\ today = Date(2025, 3, 10)
    /\ request = NoCall
    /\ response = NoCall

NextRegister ==
    \/ \E s \in DOMAIN sessions : register_user_select(s)
    \/ \E s \in DOMAIN sessions : register_user_flush(s)
    \/ \E s \in DOMAIN sessions : register_user_commit(s)

SpecRegister == InitRegister /\ [][NextRegister]_vars

-----------------------------------------------------------------------------
(* Claims on the registration.                                             *)

\* The names of the categories of a user, in the order of their ids.
CategoryNamesOf(user_id) ==
    LET Test(c) == c.user_id = user_id
        rows == SelectSeq(categories, Test)
    IN  [i \in DOMAIN rows |-> rows[i].name]

\* C28: under any interleaving of register_user calls (two concurrent calls
\* with the same username included), at most one call per username
\* succeeds, usernames stay unique in every committed state, and the
\* registration is atomic: a user row is committed together with all 8
\* default categories or, when the registration fails, neither the user nor
\* any of its categories is committed.
C28_RegistrationAtomicAndUnique ==
    /\ \A s \in DOMAIN sessions : \A t \in DOMAIN sessions :
          (/\ s # t
           /\ sessions[s].result = "ok"
           /\ sessions[t].result = "ok") => sessions[s].username # sessions[t].username
    /\ \A i \in DOMAIN users : \A j \in DOMAIN users :
          i # j => users[i].username # users[j].username
    /\ \A i \in DOMAIN users : CategoryNamesOf(users[i].id) = DEFAULT_CATEGORIES
    /\ \A i \in DOMAIN categories : UserExists(categories[i].user_id)
    /\ \A s \in DOMAIN sessions :
          LET committed == \E i \in DOMAIN users :
                              /\ users[i].username = sessions[s].username
                              /\ users[i].email = sessions[s].email
          IN  /\ sessions[s].result = "ok" =>
                    /\ committed
                    /\ UserExists(sessions[s].user_id)
              /\ (sessions[s].result # "ok" /\ sessions[s].user_id # 0) =>
                    /\ ~UserExists(sessions[s].user_id)
                    /\ CategoryNamesOf(sessions[s].user_id) = <<>>

\* Two calls asked for the username "cleo" and both passed the select
\* before either had committed; one has succeeded and "cleo" is stored once
\* with her eight categories, the other has failed at its flush.
C28_Witness ==
    /\ sessions[1].username = "cleo" /\ sessions[2].username = "cleo"
    /\ sessions[1].result = "ok"
    /\ sessions[2].result = "500"
    /\ Len(users) = 2
    /\ Len(categories) = 2 * Len(DEFAULT_CATEGORIES)

-----------------------------------------------------------------------------
(* Claims on the trend analysis.                                           *)

\* The weeks in which the list has expenses, and the expenses of a week.
ExpenseWeeks(txs) == {ISOWeek(txs[i].date) : i \in {k \in DOMAIN txs : txs[k].amount < 0}}

WeekTotal(txs, week) ==
    LET Test(tx) == tx.amount < 0 /\ ISOWeek(tx.date) = week
    IN  SumSeq(AbsAmounts(SelectSeq(txs, Test)))

\* C29: for a transaction list whose expenses fall in at least three
\* distinct ISO weeks, analyze_spending_trends reports trend "increasing"
\* when the average of the two most recent weekly totals exceeds 1.2 times
\* the average of the older weekly totals, "decreasing" when it is below 0.8
\* times that average, and "stable" otherwise; it answers "neutral" only
\* when fewer than two weeks of expenses exist, and it always returns a
\* result.
C29_TrendOfThreeWeeks ==
    response.op = "analyze_spending_trends" =>
        LET txs == request.transactions
            weeks == ExpenseWeeks(txs)
            last == CHOOSE w \in weeks : \A v \in weeks : v <= w
            before == CHOOSE w \in weeks \ {last} : \A v \in weeks \ {last} : v <= w
            olderWeeks == weeks \ {last, before}
            recent == WeekTotal(txs, last) + WeekTotal(txs, before)
            older == SumSeq([i \in 1..Len(txs) |->
                               IF txs[i].amount < 0 /\ ISOWeek(txs[i].date) \in olderWeeks
                               THEN Abs(txs[i].amount) ELSE 0])
            k == Cardinality(olderWeeks)
        IN  /\ response.raised = "none"
            /\ response.result # None
            /\ response.result[1].trend = "neutral" => Cardinality(weeks) < 2
            /\ Cardinality(weeks) >= 3 =>
                  response.result[1].trend =
                      IF recent * k * 10 > older * 2 * 12 THEN "increasing"
                      ELSE IF recent * k * 10 < older * 2 * 8 THEN "decreasing"
                      ELSE "stable"

-----------------------------------------------------------------------------
(* Claims on the risk analysis.                                            *)

\* A score, in tenths, within [0, 100].
WithinScoreRange(score) == score.num >= 0 /\ score.num <= 100 * score.den

\* C30: for every input of generate_risk_analysis (a negative total
\* balance, zero expenses and any number of over-budget budgets included),
\* each of the four factor scores and the overall score, which is the
\* 25%-each weighted sum of them, lies within [0, 100], and the level is
\* Very Low ("Muy Bajo") for a score >= 80, Low ("Bajo") for >= 60, Medium
\* ("Medio") for >= 40, High ("Alto") for >= 20 and Very High ("Muy Alto")
\* below 20.
C30_ScoresWithinRange ==
    response.op = "generate_risk_analysis" =>
        LET analysis == response.analysis
        IN  /\ WithinScoreRange(analysis.factors.incomeVolatility)
            /\ WithinScoreRange(analysis.factors.expenseConcentration)
            /\ WithinScoreRange(analysis.factors.budgetCompliance)
            /\ WithinScoreRange(analysis.factors.emergencyFund)
            /\ WithinScoreRange(analysis.overallScore)
            /\ analysis.level = RiskLevel(analysis.overallScore)
====
